---------------------------- MODULE Spec2Model ----------------------------
(***************************************************************************)
(* A model of loxrs: the bytecode chunk (chunk.rs), the string interner    *)
(* (object.rs), the single-pass compiler (compiler.rs) and the stack VM    *)
(* (vm.rs).                                                                *)
(*                                                                         *)
(* Representation.  Text (lexemes, interned strings, output lines) is a    *)
(* sequence of one-character strings.  A code unit is a record             *)
(* [op, b]: a named opcode (b = 0) or OpCode::Byte(b).  A Value is a       *)
(* record [t, n, d]: Nil, Bool (n in {0,1}), Num (the rational n/d, d > 0; *)
(* d = 0 stands for the non-finite f64 values: n = 1 inf, n = -1 -inf,     *)
(* n = 0 NaN) and String (n is the IString index).  Option::None of an     *)
(* index is written None (-1).                                             *)
(***************************************************************************)
EXTENDS Integers, Sequences, FiniteSets, TLC

VARIABLES
    chunk,       \* Chunk {code, constants, lines}: the one being written / Vm.chunk
    interner,    \* StringInterner {map, vals}
    writeLines,  \* history: the line argument of the write that made each code unit
    lastWml,     \* history: the last write_maybe_long call and its outcome
    internLog,   \* history: every intern call so far, as [s, id]
    ip,          \* Vm.ip
    stack,       \* Vm.stack, bottom first
    globals,     \* Vm.globals: a function from the names defined to their values
    out,         \* the lines written to standard output
    errs,        \* the lines written to standard error
    pc,          \* "idle": before interpret; "running": in Vm::run; "done"
    result,      \* what interpret returned: "Ok", "Compile", "Runtime";
                 \* "Panic" when the process panicked instead; "none" before
    source,      \* history: the token stream given to interpret
    ifs,         \* history: the layout of the if statements of Vm.chunk
    trace,       \* history: ip, stack depth and stack top at every fetch of run
    scopes,      \* history: the blocks closed by end_scope in the last compile
    calls,       \* history: what each finished interpret call returned
    aStack,      \* a Stack<T, N> {data, top} on its own
    stackLog,    \* history: the calls made on aStack, as [op, arg, ret]
    scanner,     \* a Scanner {src, start, current, line} on its own
    scanned      \* history: the tokens scan_token returned on scanner, with
                 \* the scanner's start and current after each call

chunkVars == <<chunk, writeLines, lastWml>>
stackVars == <<aStack, stackLog>>
scanVars == <<scanner, scanned>>
vmVars == <<ip, stack, globals, out, errs, pc, result, source, ifs, trace,
           scopes, calls, stackVars, scanVars>>
vars == <<chunk, interner, writeLines, lastWml, internLog, ip, stack, globals,
          out, errs, pc, result, source, ifs, trace, scopes, calls, aStack, stackLog,
          scanner, scanned>>

None == -1

\* u8::MAX and u16::MAX
U8Max == 255
U16Max == 65535

(***************************************************************************)
(* util.rs                                                                 *)
(***************************************************************************)
\* ((x >> 8) as u8, x as u8) of a u16
split_u16(x) == << (x \div 256) % 256, x % 256 >>

\* ((b1 as u16) << 8) | b2 as u16
join_u8s(b1, b2) == b1 * 256 + b2

(***************************************************************************)
(* chunk.rs                                                                *)
(***************************************************************************)
Op(name) == [op |-> name, b |-> 0]
Byte(b) == [op |-> "Byte", b |-> b]

\* OpCode::as_byte
as_byte(unit) == IF unit.op = "Byte" THEN unit.b ELSE None

\* impl From<OpCode> for OpLen with GetGlobalLong left out of the Long arm
OpLenOf_short_get_global(code) ==
    IF code \in {"ConstantLong", "DefineGlobalLong", "GetLocalLong", "SetLocalLong"}
    THEN "Long" ELSE "Short"

\* impl From<OpCode> for OpLen
OpLenOf(code) ==
    IF code \in {"ConstantLong", "DefineGlobalLong", "GetGlobalLong",
                 "GetLocalLong", "SetLocalLong"}
    THEN "Long" ELSE "Short"

\* Chunk::new
NewChunk == [code |-> << >>, constants |-> << >>, lines |-> << >>]

\* Chunk::write_chunk, with every line-table entry appended whatever the line
write_chunk_always(ch, unit, line) ==
    [ch EXCEPT !.code = Append(ch.code, unit),
               !.lines = Append(ch.lines, [offset |-> Len(ch.code), line |-> line])]

\* Chunk::write_chunk that takes the entry's offset after the push as code.len()
write_chunk_offset_after(ch, unit, line) ==
    LET code == Append(ch.code, unit)
        same == Len(ch.lines) > 0 /\ ch.lines[Len(ch.lines)].line = line
    IN  [ch EXCEPT !.code = code,
                   !.lines = IF same THEN ch.lines
                             ELSE Append(ch.lines,
                                         [offset |-> Len(code), line |-> line])]

\* Chunk::write_chunk
write_chunk(ch, unit, line) ==
    LET code == Append(ch.code, unit)
        same == Len(ch.lines) > 0 /\ ch.lines[Len(ch.lines)].line = line
    IN  [ch EXCEPT !.code = code,
                   !.lines = IF same THEN ch.lines
                             ELSE Append(ch.lines,
                                         [offset |-> Len(code) - 1, line |-> line])]

\* Chunk::write_maybe_long: the chunk after the call and the call's result
write_maybe_long(ch, pair, byte, line) ==
    IF byte <= U8Max
    THEN [chunk |-> write_chunk(write_chunk(ch, Op(pair[1]), line),
                                Byte(byte % 256), line),
          res |-> byte]
    ELSE IF byte <= U16Max
    THEN LET bs == split_u16(byte)
         IN  [chunk |-> write_chunk(
                            write_chunk(write_chunk(ch, Op(pair[2]), line),
                                        Byte(bs[1]), line),
                            Byte(bs[2]), line),
              res |-> byte]
    ELSE [chunk |-> ch, res |-> None]

\* Chunk::get_op (offsets count from 0; None past the end)
get_op(ch, offset) ==
    IF offset < Len(ch.code) THEN ch.code[offset + 1] ELSE Op("None")

\* Chunk::add_constant
add_constant(ch, value) ==
    [chunk |-> [ch EXCEPT !.constants = Append(ch.constants, value)],
     idx |-> Len(ch.constants)]

\* Chunk::get_line's loop.  st is "ok" when a line is returned, "oob" when
\* self.lines is indexed out of range, "underflow" when mid - 1 is taken at
\* mid = 0, "diverge" when the loop has not returned after fuel rounds.
RECURSIVE GetLineLoop(_, _, _, _, _)
GetLineLoop(lines, instruction, start, end, fuel) ==
    LET mid == (start + end) \div 2
    IN  IF fuel = 0 THEN [st |-> "diverge", line |-> 0]
        ELSE IF mid >= Len(lines) THEN [st |-> "oob", line |-> 0]
        ELSE IF instruction < lines[mid + 1].offset
        THEN IF mid = 0 THEN [st |-> "underflow", line |-> 0]
             ELSE GetLineLoop(lines, instruction, start, mid - 1, fuel - 1)
        ELSE IF mid = Len(lines) - 1 \/ instruction < lines[mid + 2].offset
        THEN [st |-> "ok", line |-> lines[mid + 1].line]
        ELSE GetLineLoop(lines, instruction, mid + 1, end, fuel - 1)

\* Chunk::get_line, which answers with the entry at mid without looking at the
\* next entry's offset
get_line_first_le(ch, instruction) ==
    LET mid == Len(ch.lines) \div 2
    IN  IF instruction < ch.lines[mid + 1].offset
        THEN [st |-> "ok", line |-> ch.lines[1].line]
        ELSE [st |-> "ok", line |-> ch.lines[mid + 1].line]

\* Chunk::get_line
get_line(ch, instruction) ==
    GetLineLoop(ch.lines, instruction, 0, Len(ch.lines), Len(ch.lines) + 2)

(***************************************************************************)
(* vm.rs: reading the code                                                 *)
(***************************************************************************)
\* Vm::read_byte: the unit at ip (Op("None") past the end) and ip + 1
read_byte(ch, ipx) == [unit |-> get_op(ch, ipx), ip |-> ipx + 1]

\* Vm::read_short: None as soon as a unit read is no Byte
read_short(ch, ipx) ==
    LET Join(r1, r2) ==
            IF as_byte(r1.unit) = None THEN [val |-> None, ip |-> r1.ip]
            ELSE IF as_byte(r2.unit) = None THEN [val |-> None, ip |-> r2.ip]
            ELSE [val |-> join_u8s(as_byte(r1.unit), as_byte(r2.unit)), ip |-> r2.ip]
    IN  Join(read_byte(ch, ipx), read_byte(ch, read_byte(ch, ipx).ip))

\* Vm::read_idx
read_idx(ch, ipx, code) ==
    LET Short(r) == [val |-> as_byte(r.unit), ip |-> r.ip]
    IN  IF OpLenOf(code) = "Short" THEN Short(read_byte(ch, ipx))
        ELSE read_short(ch, ipx)

(***************************************************************************)
(* object.rs                                                               *)
(***************************************************************************)
\* StringInterner::new.  map is the HashMap<String, IString>, a function
\* from the strings present to their index; vals is the Vec<String>.
NewInterner == [map |-> << >>, vals |-> << >>]

\* StringInterner::intern that numbers a new string after pushing it
intern_after_push(st, str) ==
    IF str \in DOMAIN st.map
    THEN [interner |-> st, id |-> st.map[str]]
    ELSE [interner |->
              [map |-> [k \in DOMAIN st.map \cup {str} |->
                            IF k = str THEN Len(st.vals) + 1 ELSE st.map[k]],
               vals |-> Append(st.vals, str)],
          id |-> Len(st.vals) + 1]

\* StringInterner::intern that does not look the string up first
intern_no_lookup(st, str) ==
    [interner |->
         [map |-> [k \in DOMAIN st.map \cup {str} |->
                       IF k = str THEN Len(st.vals) ELSE st.map[k]],
          vals |-> Append(st.vals, str)],
     id |-> Len(st.vals)]

\* StringInterner::intern: the interner after the call and the IString returned
intern(st, str) ==
    IF str \in DOMAIN st.map
    THEN [interner |-> st, id |-> st.map[str]]
    ELSE [interner |->
              [map |-> [k \in DOMAIN st.map \cup {str} |->
                            IF k = str THEN Len(st.vals) ELSE st.map[k]],
               vals |-> Append(st.vals, str)],
          id |-> Len(st.vals)]

\* StringInterner::get: &self.vals[istr.0]; <<"!oob">> stands for the panic
\* of an index out of range
InternerGet(st, id) ==
    IF id >= 0 /\ id < Len(st.vals) THEN st.vals[id + 1] ELSE <<"!oob">>


(***************************************************************************)
(* value.rs                                                                *)
(***************************************************************************)
RECURSIVE GCD(_, _)
GCD(a, b) == IF b = 0 THEN a ELSE GCD(b, a % b)

Abs(x) == IF x < 0 THEN -x ELSE x
Sign(x) == IF x < 0 THEN -1 ELSE IF x > 0 THEN 1 ELSE 0

NilV == [t |-> "Nil", n |-> 0, d |-> 1]
BoolV(b) == [t |-> "Bool", n |-> IF b THEN 1 ELSE 0, d |-> 1]
StringV(id) == [t |-> "String", n |-> id, d |-> 1]
\* Value::Num of the f64 n/d (d = 0: inf, -inf or NaN by the sign of n)
NumV(n, d) ==
    IF d = 0 THEN [t |-> "Num", n |-> Sign(n), d |-> 0]
    ELSE LET g == GCD(Abs(n), Abs(d))
         IN  [t |-> "Num", n |-> Sign(d) * (n \div g), d |-> Abs(d) \div g]

\* Value::is_falsey
is_falsey(v) == v.t = "Nil" \/ (v.t = "Bool" /\ v.n = 0)

IsNaN(x) == x.d = 0 /\ x.n = 0

\* f64 arithmetic and comparison on the n/d representation
NumNeg(x) == NumV(-x.n, x.d)
NumAdd(x, y) ==
    IF IsNaN(x) \/ IsNaN(y) THEN NumV(0, 0)
    ELSE IF x.d = 0 /\ y.d = 0 THEN (IF x.n = y.n THEN x ELSE NumV(0, 0))
    ELSE IF x.d = 0 THEN x
    ELSE IF y.d = 0 THEN y
    ELSE IF x.d = y.d THEN NumV(x.n + y.n, x.d)
    ELSE NumV(x.n * y.d + y.n * x.d, x.d * y.d)
NumSub(x, y) == NumAdd(x, NumNeg(y))
NumMul(x, y) ==
    IF IsNaN(x) \/ IsNaN(y) THEN NumV(0, 0)
    ELSE IF x.d = 0 \/ y.d = 0 THEN NumV(Sign(x.n) * Sign(y.n), 0)
    ELSE NumV(x.n * y.n, x.d * y.d)
NumDiv(x, y) ==
    IF IsNaN(x) \/ IsNaN(y) THEN NumV(0, 0)
    ELSE IF x.d = 0 /\ y.d = 0 THEN NumV(0, 0)
    ELSE IF x.d = 0 THEN NumV(x.n * (IF y.n < 0 THEN -1 ELSE 1), 0)
    ELSE IF y.d = 0 THEN NumV(0, 1)
    ELSE IF y.n = 0 THEN NumV(Sign(x.n), 0)
    ELSE NumV(x.n * y.d, x.d * y.n)
NumLess(x, y) ==
    IF IsNaN(x) \/ IsNaN(y) THEN FALSE
    ELSE IF x.d = 0 /\ y.d = 0 THEN x.n < y.n
    ELSE IF x.d = 0 THEN x.n < 0
    ELSE IF y.d = 0 THEN y.n > 0
    ELSE x.n * y.d < y.n * x.d

\* FLOAT_TOL = 1e-9 = 1 / FloatTolDen
FloatTolDen == 1000000000

\* (a - b) < FLOAT_TOL
BelowTol(x) ==
    IF IsNaN(x) THEN FALSE
    ELSE IF x.d = 0 THEN x.n < 0
    ELSE x.n <= 0 \/ FloatTolDen <= (x.d - 1) \div x.n

\* Value::eq with (Nil, Nil) => true in place of (Nil, _) => true
ValueEq_nil_only_nil(a, b) ==
    IF a.t = "Nil" THEN b.t = "Nil"
    ELSE IF a.t = "Bool" /\ b.t = "Bool" THEN a.n = b.n
    ELSE IF a.t = "Num" /\ b.t = "Num" THEN BelowTol(NumSub(a, b))
    ELSE IF a.t = "String" /\ b.t = "String" THEN a.n = b.n
    ELSE FALSE

\* Value::eq
ValueEq(a, b) ==
    IF a.t = "Nil" THEN TRUE
    ELSE IF a.t = "Bool" /\ b.t = "Bool" THEN a.n = b.n
    ELSE IF a.t = "Num" /\ b.t = "Num" THEN BelowTol(NumSub(a, b))
    ELSE IF a.t = "String" /\ b.t = "String" THEN a.n = b.n
    ELSE FALSE

DigitChars == <<"0", "1", "2", "3", "4", "5", "6", "7", "8", "9">>
DigitOf(c) == (CHOOSE i \in 1 .. 10 : DigitChars[i] = c) - 1

RECURSIVE NatText(_)
NatText(n) ==
    IF n < 10 THEN << DigitChars[n + 1] >>
    ELSE Append(NatText(n \div 10), DigitChars[(n % 10) + 1])

\* impl Display for Value, Num arm ({n} of an f64): an integer prints its
\* digits; a fraction is written n/d here instead of its decimal expansion
NumText(x) ==
    IF x.d = 0
    THEN (IF x.n > 0 THEN <<"i", "n", "f">>
          ELSE IF x.n < 0 THEN <<"-", "i", "n", "f">> ELSE <<"N", "a", "N">>)
    ELSE (IF x.n < 0 THEN <<"-">> ELSE << >>)
             \o NatText(Abs(x.n))
             \o (IF x.d = 1 THEN << >> ELSE <<"/">> \o NatText(x.d))

\* impl Display for Value (Nil, Bool and Num arms)
ValueText(v) ==
    IF v.t = "Nil" THEN <<"n", "i", "l">>
    ELSE IF v.t = "Bool"
    THEN (IF v.n = 1 THEN <<"t", "r", "u", "e">> ELSE <<"f", "a", "l", "s", "e">>)
    ELSE NumText(v)

(***************************************************************************)
(* scanner.rs: tokens.  The compiler is modelled on the token stream that  *)
(* scan_token yields for the source text.                                  *)
(***************************************************************************)
Token(typ, src, line) == [typ |-> typ, src |-> src, line |-> line]

\* Token::default()
DefaultToken == Token("Eof", << >>, 0)

(***************************************************************************)
(* scanner.rs: Scanner {src, start, current, line} over a text, which is   *)
(* a sequence of one-character strings; start and current count from 0.    *)
(***************************************************************************)
\* '\0', which char_at yields past the end of the text
Nul == "NUL"

Lower == {"a", "b", "c", "d", "e", "f", "g", "h", "i", "j", "k", "l", "m", "n",
          "o", "p", "q", "r", "s", "t", "u", "v", "w", "x", "y", "z"}
Upper == {"A", "B", "C", "D", "E", "F", "G", "H", "I", "J", "K", "L", "M", "N",
          "O", "P", "Q", "R", "S", "T", "U", "V", "W", "X", "Y", "Z"}

\* is_digit and is_alpha (the alpha! macro)
is_digit(c) == c \in {"0", "1", "2", "3", "4", "5", "6", "7", "8", "9"}
is_alpha(c) == c \in Lower \cup Upper \cup {"_"}

\* Scanner::new
NewScanner(src) == [src |-> src, start |-> 0, current |-> 0, line |-> 1]

\* Scanner::char_at, peek, peek_next, is_at_end
char_at(sc, idx) == IF idx < Len(sc.src) THEN sc.src[idx + 1] ELSE Nul
Scanner_peek(sc) == char_at(sc, sc.current)
peek_next(sc) == char_at(sc, sc.current + 1)
is_at_end(sc) == Scanner_peek(sc) = Nul

\* Scanner::advance: the scanner after the call (the character returned is
\* char_at(current - 1) of it)
Scanner_advance(sc) == [sc EXCEPT !.current = @ + 1]

\* Scanner::matchh: the scanner after the call and the boolean returned
matchh(sc, expected) ==
    IF is_at_end(sc) \/ Scanner_peek(sc) # expected THEN [sc |-> sc, ok |-> FALSE]
    ELSE [sc |-> [sc EXCEPT !.current = @ + 1], ok |-> TRUE]

\* Scanner::make_token and Scanner::error_token
make_token(sc, typ) ==
    Token(typ, SubSeq(sc.src, sc.start + 1, sc.current), sc.line)
error_token(sc, msg) == Token("Error", msg, sc.line)

\* Scanner::skip_whitespace
RECURSIVE skip_whitespace(_)
RECURSIVE SkipComment(_)
SkipComment(sc) ==
    IF Scanner_peek(sc) # "\n" /\ ~is_at_end(sc) THEN SkipComment(Scanner_advance(sc))
    ELSE sc
skip_whitespace(sc) ==
    IF Scanner_peek(sc) \in {" ", "\r", "\t"} THEN skip_whitespace(Scanner_advance(sc))
    ELSE IF Scanner_peek(sc) = "\n"
    THEN skip_whitespace(Scanner_advance([sc EXCEPT !.line = @ + 1]))
    ELSE IF Scanner_peek(sc) = "/" /\ peek_next(sc) = "/"
    THEN skip_whitespace(SkipComment(sc))
    ELSE sc

\* Scanner::string: the scanner after the call and the token
RECURSIVE StringLoop(_)
StringLoop(sc) ==
    IF Scanner_peek(sc) # "\"" /\ ~is_at_end(sc)
    THEN StringLoop(Scanner_advance(IF Scanner_peek(sc) = "\n"
                                    THEN [sc EXCEPT !.line = @ + 1] ELSE sc))
    ELSE sc
Scanner_string(sc) ==
    LET Closed(sc1) ==
            IF is_at_end(sc1)
            THEN [sc |-> sc1,
                  tok |-> error_token(sc1, "Unterminated string.")]
            ELSE [sc |-> Scanner_advance(sc1),
                  tok |-> make_token(Scanner_advance(sc1), "String")]
    IN  Closed(StringLoop(sc))

\* Scanner::number
RECURSIVE DigitLoop(_)
DigitLoop(sc) ==
    IF is_digit(Scanner_peek(sc)) THEN DigitLoop(Scanner_advance(sc)) ELSE sc
Scanner_number(sc) ==
    LET Fraction(sc1) ==
            IF Scanner_peek(sc1) = "." /\ is_digit(peek_next(sc1))
            THEN DigitLoop(Scanner_advance(sc1))
            ELSE sc1
        Made(sc2) == [sc |-> sc2, tok |-> make_token(sc2, "Number")]
    IN  Made(Fraction(DigitLoop(sc)))

\* Scanner::check_keyword that accepts a lexeme that starts with the keyword
check_keyword_prefix(sc, start, rest, typ) ==
    IF /\ sc.start + start + Len(rest) <= sc.current
       /\ SubSeq(sc.src, sc.start + start + 1, sc.start + start + Len(rest)) = rest
    THEN typ
    ELSE "Identifier"

\* Scanner::check_keyword: src[self.start + start .. self.current] == rest
check_keyword(sc, start, rest, typ) ==
    IF SubSeq(sc.src, sc.start + start + 1, sc.current) = rest THEN typ
    ELSE "Identifier"

\* Scanner::identifier_type
identifier_type(sc) ==
    LET c == char_at(sc, sc.start)
        c1 == char_at(sc, sc.start + 1)
    IN  CASE c = "a" -> check_keyword(sc, 1, <<"n", "d">>, "And")
          [] c = "c" -> check_keyword(sc, 1, <<"l", "a", "s", "s">>, "Class")
          [] c = "e" -> check_keyword(sc, 1, <<"l", "s", "e">>, "Else")
          [] c = "f" ->
               (CASE c1 = "a" -> check_keyword(sc, 2, <<"l", "s", "e">>, "False")
                  [] c1 = "o" -> check_keyword(sc, 2, <<"r">>, "For")
                  [] c1 = "u" -> check_keyword(sc, 2, <<"n">>, "Fun")
                  [] OTHER -> "Identifier")
          [] c = "i" -> check_keyword(sc, 1, <<"f">>, "If")
          [] c = "n" -> check_keyword(sc, 1, <<"i", "l">>, "Nil")
          [] c = "o" -> check_keyword(sc, 1, <<"r">>, "Or")
          [] c = "p" -> check_keyword(sc, 1, <<"r", "i", "n", "t">>, "Print")
          [] c = "r" -> check_keyword(sc, 1, <<"e", "t", "u", "r", "n">>, "Return")
          [] c = "s" -> check_keyword(sc, 1, <<"u", "p", "e", "r">>, "Super")
          [] c = "t" ->
               (CASE c1 = "h" -> check_keyword(sc, 2, <<"i", "s">>, "This")
                  [] c1 = "r" -> check_keyword(sc, 2, <<"u", "e">>, "True")
                  [] OTHER -> "Identifier")
          [] c = "v" -> check_keyword(sc, 1, <<"a", "r">>, "Var")
          [] c = "w" -> check_keyword(sc, 1, <<"h", "i", "l", "e">>, "While")
          [] OTHER -> "Identifier"

\* Scanner::identifier
RECURSIVE IdentifierLoop(_)
IdentifierLoop(sc) ==
    IF is_alpha(Scanner_peek(sc)) \/ is_digit(Scanner_peek(sc))
    THEN IdentifierLoop(Scanner_advance(sc))
    ELSE sc
Scanner_identifier(sc) ==
    LET Made(sc1) == [sc |-> sc1, tok |-> make_token(sc1, identifier_type(sc1))]
    IN  Made(IdentifierLoop(sc))

\* the token types of the characters that are a token alone
SingleChar ==
    [c \in {"(", ")", "{", "}", ";", ",", ".", "-", "+", "/", "*"} |->
        CASE c = "(" -> "LParen" [] c = ")" -> "RParen"
          [] c = "{" -> "LBrace" [] c = "}" -> "RBrace"
          [] c = ";" -> "Semicolon" [] c = "," -> "Comma" [] c = "." -> "Dot"
          [] c = "-" -> "Minus" [] c = "+" -> "Plus"
          [] c = "/" -> "Slash" [] c = "*" -> "Star"]

\* the arms of scan_token for ! = < >: the type alone and the type with =
OneOrTwo ==
    [c \in {"!", "=", "<", ">"} |->
        CASE c = "!" -> <<"Bang", "BangEqual">>
          [] c = "=" -> <<"Equal", "EqualEqual">>
          [] c = "<" -> <<"Less", "LessEqual">>
          [] c = ">" -> <<"Greater", "GreaterEqual">>]

\* Scanner::scan_token on the text: the scanner after the call and the token
Scanner_scan_token(sc) ==
    LET Matched(c, m) ==
            [sc |-> m.sc,
             tok |-> make_token(m.sc, OneOrTwo[c][IF m.ok THEN 2 ELSE 1])]
        Dispatch(c, sc2) ==
            IF c \in DOMAIN SingleChar
            THEN [sc |-> sc2, tok |-> make_token(sc2, SingleChar[c])]
            ELSE IF c \in DOMAIN OneOrTwo THEN Matched(c, matchh(sc2, "="))
            ELSE IF c = "\"" THEN Scanner_string(sc2)
            ELSE IF is_digit(c) THEN Scanner_number(sc2)
            ELSE IF is_alpha(c) THEN Scanner_identifier(sc2)
            ELSE [sc |-> sc2,
                  tok |-> error_token(sc2, "Unexpected character.")]
        Started(sc1) ==
            IF is_at_end(sc1) THEN [sc |-> sc1, tok |-> make_token(sc1, "Eof")]
            ELSE Dispatch(Scanner_peek(sc1), Scanner_advance(sc1))
        Skipped(sc0) == Started([sc0 EXCEPT !.start = sc0.current])
    IN  Skipped(skip_whitespace(sc))

(***************************************************************************)
(* compiler.rs                                                             *)
(***************************************************************************)
\* enum Precedence, in its declared order
PrecNone == 0
PrecAssignment == 1
PrecEquality == 4
PrecComparison == 5
PrecTerm == 6
PrecFactor == 7
PrecUnary == 8

\* get_rule(typ, RuleType::Precedence) with Slash and Star given Term
PrecedenceOf_flat(typ) ==
    IF typ \in {"Minus", "Plus", "Slash", "Star"} THEN PrecTerm
    ELSE IF typ \in {"BangEqual", "EqualEqual"} THEN PrecEquality
    ELSE IF typ \in {"Greater", "GreaterEqual", "Less", "LessEqual"} THEN PrecComparison
    ELSE PrecNone

\* get_rule(typ, RuleType::Precedence)
PrecedenceOf(typ) ==
    IF typ \in {"Minus", "Plus"} THEN PrecTerm
    ELSE IF typ \in {"Slash", "Star"} THEN PrecFactor
    ELSE IF typ \in {"BangEqual", "EqualEqual"} THEN PrecEquality
    ELSE IF typ \in {"Greater", "GreaterEqual", "Less", "LessEqual"} THEN PrecComparison
    ELSE PrecNone

\* get_rule(typ, RuleType::Prefix)
PrefixRuleOf(typ) ==
    IF typ = "LParen" THEN "grouping"
    ELSE IF typ \in {"Minus", "Bang"} THEN "unary"
    ELSE IF typ = "Identifier" THEN "variable"
    ELSE IF typ = "String" THEN "string"
    ELSE IF typ = "Number" THEN "number"
    ELSE IF typ \in {"False", "Nil", "True"} THEN "literal"
    ELSE "none"

\* Compiler::new with Parser::default(), for the token stream toks; eofLine
\* is the scanner's line at the end of the text
NewCompiler(toks, eofLine, st) ==
    [toks |-> toks, pos |-> 0, eofLine |-> eofLine,
     current |-> DefaultToken, previous |-> DefaultToken,
     had_error |-> FALSE, panic_mode |-> FALSE,
     diag |-> << >>,        \* the diagnostics written to standard error
     interner |-> st,
     chunk |-> NewChunk,
     locals |-> << >>, scope_depth |-> 0,
     ifs |-> << >>,         \* history: the layout of each compiled if statement
     open |-> << >>,        \* history: the scopes begun and not yet ended
     scopes |-> << >>,      \* history: the scopes ended, in the order of their ends
     events |-> << >>,      \* history: the error_at and synchronize calls
     fault |-> FALSE]       \* a Rust panic (a failed expect) was hit

\* the parser's flags and the number of diagnostics written so far
ParseFlags(c) ==
    [panic_mode |-> c.panic_mode, had_error |-> c.had_error, reported |-> Len(c.diag)]

\* the history of a call that found the compiler c and left it as c1
ParseEvent(k, c, c1) ==
    [c1 EXCEPT !.events = Append(@, [k |-> k, before |-> ParseFlags(c),
                                     after |-> ParseFlags(c1),
                                     previous |-> c1.previous.typ,
                                     current |-> c1.current.typ])]

\* Parser::error_at without the return in panic mode
error_at_in_panic(c, token, msg) ==
    ParseEvent("error_at", c,
               [c EXCEPT !.panic_mode = TRUE,
                         !.had_error = TRUE,
                         !.diag = Append(@, [line |-> token.line, typ |-> token.typ,
                                             msg |-> msg])])

\* Parser::error_at
error_at(c, token, msg) ==
    ParseEvent("error_at", c,
               IF c.panic_mode THEN c
               ELSE [c EXCEPT !.panic_mode = TRUE,
                              !.had_error = TRUE,
                              !.diag = Append(@, [line |-> token.line,
                                                  typ |-> token.typ, msg |-> msg])])

\* Parser::error
error(c, msg) == error_at(c, c.previous, msg)

\* Parser::error_at_current
error_at_current(c, msg) == error_at(c, c.current, msg)

\* Scanner::scan_token on the token stream: the next token, Eof at the end
scan_token(c) ==
    IF c.pos < Len(c.toks) THEN c.toks[c.pos + 1] ELSE Token("Eof", << >>, c.eofLine)

\* Compiler::advance's loop: error tokens are reported and skipped
RECURSIVE AdvanceLoop(_)
AdvanceLoop(c) ==
    LET Scanned(tok, c1) ==
            IF tok.typ # "Error" THEN c1
            ELSE AdvanceLoop(error_at_current(c1, tok.src))
    IN  Scanned(scan_token(c),
                [c EXCEPT !.current = scan_token(c),
                          !.pos = IF c.pos < Len(c.toks) THEN c.pos + 1 ELSE c.pos])

\* Compiler::advance
advance(c) == AdvanceLoop([c EXCEPT !.previous = c.current])

\* Compiler::check
check(c, typ) == c.current.typ = typ

\* Compiler::matches: the compiler after the call (the call returns check(c, typ))
matches(c, typ) == IF check(c, typ) THEN advance(c) ELSE c

\* Compiler::consume
consume(c, typ, msg) ==
    IF c.current.typ = typ THEN advance(c) ELSE error_at_current(c, msg)

\* Compiler::emit_byte
emit_byte(c, name) ==
    [c EXCEPT !.chunk = write_chunk(c.chunk, Op(name), c.previous.line)]

\* Compiler::emit_bytes
emit_bytes(c, b1, b2) == emit_byte(emit_byte(c, b1), b2)

\* Compiler::emit_byte(OpCode::Byte(b))
emit_raw(c, b) ==
    [c EXCEPT !.chunk = write_chunk(c.chunk, Byte(b), c.previous.line)]

\* Compiler::emit_jump: the compiler after the call and the offset returned
emit_jump(c, instruction) ==
    LET Emitted(c1) == [c |-> c1, offset |-> Len(c1.chunk.code) - 2]
    IN  Emitted(emit_raw(emit_raw(emit_byte(c, instruction), U8Max), U8Max))

\* Chunk::get_byte_mut(offset) assigned b; the expect("jump byte") fails
\* when the unit there is no Byte
PatchByte(c, offset, b) ==
    IF offset < Len(c.chunk.code) /\ c.chunk.code[offset + 1].op = "Byte"
    THEN [c EXCEPT !.chunk.code[offset + 1] = Byte(b)]
    ELSE [c EXCEPT !.fault = TRUE]

\* Compiler::patch_jump that counts the jump from the first operand byte
patch_jump_short(c, offset) ==
    LET jump == Len(c.chunk.code) - offset - 1
        js == split_u16(jump % (U16Max + 1))
    IN  PatchByte(PatchByte(c, offset, js[1]), offset + 1, js[2])

\* Compiler::patch_jump
patch_jump(c, offset) ==
    LET Patch(jump, js) ==
            PatchByte(PatchByte(IF jump > U16Max
                                THEN error(c, "Too much code to jump over.")
                                ELSE c,
                                offset, js[1]),
                      offset + 1, js[2])
    IN  Patch(Len(c.chunk.code) - offset - 2,
              split_u16((Len(c.chunk.code) - offset - 2) % (U16Max + 1)))

\* Compiler::make_constant: the compiler after the call and the index returned
make_constant(c, value) ==
    LET Added(r, c1) ==
            IF r.idx > U16Max
            THEN [c |-> error(c1, "Too many constants in one chunk."), idx |-> 0]
            ELSE [c |-> c1, idx |-> r.idx]
    IN  Added(add_constant(c.chunk, value),
              [c EXCEPT !.chunk = add_constant(c.chunk, value).chunk])

\* Compiler::emit_long
emit_long(c, pair, byte) ==
    [c EXCEPT !.chunk = write_maybe_long(c.chunk, pair, byte, c.previous.line).chunk]

\* Compiler::emit_constant
emit_constant(c, value) ==
    LET Emit(m) == emit_long(m.c, <<"Constant", "ConstantLong">>, m.idx)
    IN  Emit(make_constant(c, value))

\* Compiler::identifier_constant: the compiler after the call and the index
identifier_constant(c, token) ==
    LET Made(r) == make_constant([c EXCEPT !.interner = r.interner], StringV(r.id))
    IN  Made(intern(c.interner, token))

RECURSIVE DigitsValue(_)
DigitsValue(ds) ==
    IF ds = << >> THEN 0
    ELSE DigitsValue(SubSeq(ds, 1, Len(ds) - 1)) * 10 + DigitOf(ds[Len(ds)])

RECURSIVE Pow10(_)
Pow10(k) == IF k = 0 THEN 1 ELSE 10 * Pow10(k - 1)

\* str::parse::<f64> of a Number lexeme: digits, or digits '.' digits
ParseNumber(src) ==
    LET dots == {i \in 1 .. Len(src) : src[i] = "."}
    IN  IF dots = {} THEN NumV(DigitsValue(src), 1)
        ELSE LET k == CHOOSE i \in dots : TRUE
                 frac == SubSeq(src, k + 1, Len(src))
             IN  NumV(DigitsValue(SubSeq(src, 1, k - 1)) * Pow10(Len(frac))
                          + DigitsValue(frac),
                      Pow10(Len(frac)))

\* Compiler::number
number(c) == emit_constant(c, ParseNumber(c.previous.src))

\* Compiler::string: the lexeme without its quotes is interned
string(c) ==
    LET Emit(r) == emit_constant([c EXCEPT !.interner = r.interner], StringV(r.id))
    IN  Emit(intern(c.interner, SubSeq(c.previous.src, 2, Len(c.previous.src) - 1)))

\* Compiler::literal
literal(c) ==
    emit_byte(c, IF c.previous.typ = "False" THEN "False"
                 ELSE IF c.previous.typ = "True" THEN "True" ELSE "Nil")

\* Compiler::resolve_local that passes over a local that is not initialized
resolve_local_skip_uninit(c, name) ==
    LET Among(hits) ==
            IF hits = {} THEN [c |-> c, idx |-> None]
            ELSE [c |-> c, idx |-> (CHOOSE h \in hits : \A g \in hits : g <= h) - 1]
    IN  Among({k \in 1 .. Len(c.locals) :
                   c.locals[k].name.src = name /\ c.locals[k].depth # None})

\* Compiler::resolve_local searching the locals from the oldest
resolve_local_oldest(c, name) ==
    LET Found(h) ==
            IF c.locals[h].depth = None
            THEN [c |-> error(c, "Can't read local variable in its own initializer."),
                  idx |-> h - 1]
            ELSE [c |-> c, idx |-> h - 1]
        Among(hits) ==
            IF hits = {} THEN [c |-> c, idx |-> None]
            ELSE Found(CHOOSE h \in hits : \A g \in hits : h <= g)
    IN  Among({k \in 1 .. Len(c.locals) : c.locals[k].name.src = name})

\* Compiler::resolve_local: the compiler after the call and Some(idx) / None
resolve_local(c, name) ==
    LET Found(i) ==
            [c |-> IF c.locals[i].depth = None
                   THEN error(c, "Can't read local variable in its own initializer.")
                   ELSE c,
             idx |-> i - 1]
        Among(hits) ==
            IF hits = {} THEN [c |-> c, idx |-> None]
            ELSE Found(CHOOSE h \in hits : \A g \in hits : g <= h)
    IN  Among({k \in 1 .. Len(c.locals) : c.locals[k].name.src = name})

RECURSIVE parse_precedence(_, _)
RECURSIVE InfixLoop(_, _)
RECURSIVE PrefixRule(_, _, _)
RECURSIVE binary(_)
RECURSIVE unary(_)
RECURSIVE grouping(_)
RECURSIVE named_variable(_, _, _)

\* Compiler::expression
expression(c) == parse_precedence(c, PrecAssignment)

\* Compiler::grouping
grouping(c) == consume(expression(c), "RParen", "Expect ')' after expression.")

\* Compiler::unary
unary(c) ==
    LET Emit(typ, c1) == emit_byte(c1, IF typ = "Minus" THEN "Negate" ELSE "Not")
    IN  Emit(c.previous.typ, parse_precedence(c, PrecUnary))

\* Compiler::binary
binary(c) ==
    LET Emit(typ, c1) ==
            CASE typ = "BangEqual" -> emit_bytes(c1, "Equal", "Not")
              [] typ = "EqualEqual" -> emit_byte(c1, "Equal")
              [] typ = "Greater" -> emit_byte(c1, "Greater")
              [] typ = "GreaterEqual" -> emit_bytes(c1, "Less", "Not")
              [] typ = "Less" -> emit_byte(c1, "Less")
              [] typ = "LessEqual" -> emit_bytes(c1, "Greater", "Not")
              [] typ = "Plus" -> emit_byte(c1, "Add")
              [] typ = "Minus" -> emit_byte(c1, "Subtract")
              [] typ = "Star" -> emit_byte(c1, "Multiply")
              [] typ = "Slash" -> emit_byte(c1, "Divide")
    IN  Emit(c.previous.typ, parse_precedence(c, PrecedenceOf(c.previous.typ) + 1))

\* Compiler::named_variable
named_variable(c, token, can_assign) ==
    LET Emit(c1, arg, get_ops, set_ops) ==
            IF can_assign /\ check(c1, "Equal")
            THEN emit_long(expression(advance(c1)), set_ops, arg)
            ELSE emit_long(c1, get_ops, arg)
        Global(g) ==
            Emit(g.c, g.idx, <<"GetGlobal", "GetGlobalLong">>,
                 <<"SetGlobal", "SetGlobalLong">>)
        Resolved(r) ==
            IF r.idx # None
            THEN Emit(r.c, r.idx, <<"GetLocal", "GetLocalLong">>,
                      <<"SetLocal", "SetLocalLong">>)
            ELSE Global(identifier_constant(r.c, token))
    IN  Resolved(resolve_local(c, token))

\* the prefix rule get_rule gave, called with can_assign
PrefixRule(rule, c, can_assign) ==
    CASE rule = "grouping" -> grouping(c)
      [] rule = "unary" -> unary(c)
      [] rule = "variable" -> named_variable(c, c.previous.src, can_assign)
      [] rule = "string" -> string(c)
      [] rule = "number" -> number(c)
      [] rule = "literal" -> literal(c)

\* Compiler::parse_precedence's while loop; every infix rule is binary
InfixLoop(c, precedence) ==
    IF precedence <= PrecedenceOf(c.current.typ)
    THEN InfixLoop(binary(advance(c)), precedence)
    ELSE c

\* Compiler::parse_precedence
parse_precedence(c, precedence) ==
    LET can_assign == precedence <= PrecAssignment
        Infix(c2) ==
            IF can_assign /\ check(c2, "Equal")
            THEN error(advance(c2), "Invalid assignment target.")
            ELSE c2
        Prefix(c1, rule) ==
            IF rule = "none" THEN error(c1, "Expect expression.")
            ELSE Infix(InfixLoop(PrefixRule(rule, c1, can_assign), precedence))
        Advanced(c1) == Prefix(c1, PrefixRuleOf(c1.previous.typ))
    IN  Advanced(advance(c))

\* Compiler::add_local
add_local(c, name) ==
    IF Len(c.locals) > U16Max
    THEN error(c, "Too many local variables in one function.")
    ELSE [c EXCEPT !.locals = Append(@, [name |-> name, depth |-> None,
                                         at |-> None])]

\* Compiler::declare_variable without the break at a local of a shallower
\* scope: the names of all locals are compared
declare_variable_all_scopes(c) ==
    IF c.scope_depth = 0 THEN c
    ELSE add_local(IF \E i \in 1 .. Len(c.locals) :
                          c.locals[i].name.src = c.previous.src
                   THEN error(c, "Already a variable with this name in this scope.")
                   ELSE c,
                   c.previous)

\* Compiler::declare_variable: the names of the locals above the topmost
\* local of a shallower scope are compared with the declared name
declare_variable(c) ==
    IF c.scope_depth = 0 THEN c
    ELSE LET name == c.previous
             outer == {i \in 1 .. Len(c.locals) :
                           c.locals[i].depth # None /\ c.locals[i].depth < c.scope_depth}
             clash == \E i \in 1 .. Len(c.locals) :
                          /\ \A j \in outer : j < i
                          /\ c.locals[i].name.src = name.src
         IN  add_local(IF clash
                       THEN error(c, "Already a variable with this name in this scope.")
                       ELSE c,
                       name)

\* Compiler::parse_variable: the compiler after the call and the index returned
parse_variable(c, msg) ==
    LET Declared(c1) ==
            IF c1.scope_depth > 0 THEN [c |-> c1, idx |-> 0]
            ELSE identifier_constant(c1, c1.previous.src)
    IN  Declared(declare_variable(consume(c, "Identifier", msg)))

\* Compiler::mark_initialized
mark_initialized(c) ==
    IF c.locals = << >> THEN [c EXCEPT !.fault = TRUE]
    ELSE [c EXCEPT !.locals[Len(c.locals)].depth = c.scope_depth,
                   !.locals[Len(c.locals)].at = Len(c.chunk.code)]

\* Compiler::define_variable
define_variable(c, global) ==
    IF c.scope_depth = 0
    THEN emit_long(c, <<"DefineGlobal", "DefineGlobalLong">>, global)
    ELSE mark_initialized(c)

\* Compiler::var_declaration
var_declaration(c) ==
    LET Define(global, c1) ==
            define_variable(
                consume(c1, "Semicolon", "Expect ';' after variable declaration."),
                global)
        Parsed(g) ==
            Define(g.idx, IF check(g.c, "Equal") THEN expression(advance(g.c))
                          ELSE emit_byte(g.c, "Nil"))
    IN  Parsed(parse_variable(c, "Expect variable name."))

\* Compiler::synchronize's loop
RECURSIVE SynchronizeLoop(_)
SynchronizeLoop(c) ==
    IF c.current.typ = "Eof" THEN c
    ELSE IF c.previous.typ = "Semicolon" THEN c
    ELSE IF c.current.typ \in {"Class", "Fun", "Var", "For", "If", "While",
                               "Print", "Return"} THEN c
    ELSE SynchronizeLoop(advance(c))

\* Compiler::synchronize; the history notes the call and its return
synchronize(c) ==
    LET Returned(c2) == ParseEvent("synchronized", c2, c2)
    IN  Returned(SynchronizeLoop(
            ParseEvent("synchronize", c, [c EXCEPT !.panic_mode = FALSE])))

\* Compiler::begin_scope; open notes the locals and the code offset it found
begin_scope(c) ==
    [c EXCEPT !.scope_depth = @ + 1,
              !.open = Append(@, [begin |-> Len(c.chunk.code), locals |-> c.locals])]

\* Compiler::end_scope's loop: one Pop per local deeper than the scope
RECURSIVE EndScopeLoop(_)
EndScopeLoop(c) ==
    IF c.locals = << >> THEN c
    ELSE LET l == c.locals[Len(c.locals)]
         IN  IF l.depth = None THEN [c EXCEPT !.fault = TRUE]
             ELSE IF l.depth > c.scope_depth
             THEN EndScopeLoop([emit_byte(c, "Pop") EXCEPT
                                    !.locals = SubSeq(c.locals, 1, Len(c.locals) - 1)])
             ELSE c

\* the history of an end_scope call that found the compiler c and left it as
\* c1: the scope's begin_scope record, the locals before and after the call,
\* and the code units the call emitted
LeaveScope(c, c1) ==
    IF c.open = << >> THEN c1
    ELSE [c1 EXCEPT
              !.open = SubSeq(c.open, 1, Len(c.open) - 1),
              !.scopes = Append(@,
                  [begin |-> c.open[Len(c.open)].begin,
                   localsAtBegin |-> c.open[Len(c.open)].locals,
                   localsAtEnd |-> c.locals,
                   localsAfter |-> c1.locals,
                   depth |-> c.scope_depth,
                   emitted |-> SubSeq(c1.chunk.code, Len(c.chunk.code) + 1,
                                      Len(c1.chunk.code)),
                   end |-> Len(c1.chunk.code)])]

\* Compiler::end_scope that drops the scope's locals without emitting Pop
end_scope_no_pop(c) ==
    LET d == c.scope_depth - 1
    IN  [c EXCEPT !.scope_depth = d,
                  !.locals = SelectSeq(c.locals, LAMBDA l : l.depth <= d)]

\* Compiler::end_scope that emits the Pops and leaves the locals in the array
end_scope_keep_locals(c) ==
    LeaveScope(c, [EndScopeLoop([c EXCEPT !.scope_depth = @ - 1])
                       EXCEPT !.locals = c.locals])

\* Compiler::end_scope
end_scope(c) == LeaveScope(c, EndScopeLoop([c EXCEPT !.scope_depth = @ - 1]))

\* Compiler::print_statement
print_statement(c) ==
    emit_byte(consume(expression(c), "Semicolon", "Expect ';' after value."), "Print")

\* Compiler::expression_statement
expression_statement(c) ==
    emit_byte(consume(expression(c), "Semicolon", "Expect ';' after expression."), "Pop")

RECURSIVE declaration(_)
RECURSIVE statement(_)
RECURSIVE BlockLoop(_)
RECURSIVE if_statement(_)

\* Compiler::block
BlockLoop(c) ==
    IF ~check(c, "RBrace") /\ ~check(c, "Eof") THEN BlockLoop(declaration(c))
    ELSE consume(c, "RBrace", "Expect '}' after block.")

\* Compiler::if_statement; ifs records where the statement's parts start
if_statement(c) ==
    LET Record(then_jump, else_jump, c4, hasElse, c7) ==
            [c7 EXCEPT !.ifs = Append(@,
                [cond |-> Len(c.chunk.code), jif |-> then_jump.offset - 1,
                 thenPop |-> then_jump.offset + 2, jump |-> else_jump.offset - 1,
                 elsePop |-> Len(c4.chunk.code), end |-> Len(c7.chunk.code),
                 hasElse |-> hasElse])]
        ElseArm(then_jump, else_jump, c4, c5) ==
            Record(then_jump, else_jump, c4, check(c5, "Else"),
                   patch_jump(IF check(c5, "Else") THEN statement(advance(c5)) ELSE c5,
                              else_jump.offset))
        ThenPatched(then_jump, else_jump, c4) ==
            ElseArm(then_jump, else_jump, c4, emit_byte(c4, "Pop"))
        ThenArm(then_jump, else_jump) ==
            ThenPatched(then_jump, else_jump, patch_jump(else_jump.c, then_jump.offset))
        Condition(then_jump) ==
            ThenArm(then_jump,
                    emit_jump(statement(emit_byte(then_jump.c, "Pop")), "Jump"))
    IN  Condition(emit_jump(
            consume(expression(consume(c, "LParen", "Expect '(' after 'if'.")),
                    "RParen", "Expect ')' after condition."),
            "JumpIfFalse"))

\* Compiler::statement
statement(c) ==
    IF check(c, "Print") THEN print_statement(advance(c))
    ELSE IF check(c, "If") THEN if_statement(advance(c))
    ELSE IF check(c, "LBrace") THEN end_scope(BlockLoop(begin_scope(advance(c))))
    ELSE expression_statement(c)

\* Compiler::declaration
declaration(c) ==
    LET Recover(c1) == IF c1.panic_mode THEN synchronize(c1) ELSE c1
    IN  Recover(IF check(c, "Var") THEN var_declaration(advance(c)) ELSE statement(c))

\* Compiler::compile's while loop, then end_compiler (emit_return)
RECURSIVE CompileLoop(_)
CompileLoop(c) ==
    IF check(c, "Eof") THEN emit_byte(advance(c), "Return")
    ELSE CompileLoop(declaration(c))

\* Compiler::compile: the compiler at its end; the result is Err(Compile)
\* iff had_error, else Ok(compiling_chunk)
compile(toks, eofLine, st) == CompileLoop(advance(NewCompiler(toks, eofLine, st)))

(***************************************************************************)
(* vm.rs: one round of Vm::run's loop, as a function of the VM's fields.   *)
(* The result is a record of the fields after the round and st: "run" to   *)
(* go on, "Ok" / "Runtime" / "Compile" for what run returns, "Panic" when  *)
(* an unwrap / expect / unimplemented! fails.                              *)
(***************************************************************************)
VmOf(ch, ipx, stk, st, gl, o, e) ==
    [chunk |-> ch, ip |-> ipx, stack |-> stk, interner |-> st, globals |-> gl,
     out |-> o, errs |-> e, st |-> "run"]

Ended(vm, how) == [vm EXCEPT !.st = how]

\* Stack::push
Push(vm, v) == [vm EXCEPT !.stack = Append(@, v)]
\* Stack::pop (the caller has checked that the stack is not empty)
Pop1(vm) == [vm EXCEPT !.stack = SubSeq(@, 1, Len(@) - 1)]
\* Stack::peek(distance); Some exactly when distance < top
HasPeek(vm, distance) == Len(vm.stack) > distance
Peek(vm, distance) == vm.stack[Len(vm.stack) - distance]
\* Stack::reset
Reset(vm) == [vm EXCEPT !.stack = << >>]

\* Vm::runtime_error that reports the line of the chunk's first instruction
runtime_error_first_line(vm, msg, name) ==
    LET Report(line, vm1) ==
            IF vm.ip = 0 \/ vm.chunk.lines = << >> \/ line.st # "ok"
            THEN Ended(vm1, "Panic")
            ELSE Ended(Reset([vm1 EXCEPT !.errs = Append(@, [k |-> "in script",
                                                            line |-> line.line])]),
                       "Runtime")
    IN  Report(get_line(vm.chunk, 0),
               [vm EXCEPT !.out = Append(@, [k |-> "message", s |-> msg, text |-> name])])

\* Vm::runtime_error, called with vm.ip after the instruction's operands
runtime_error(vm, msg, name) ==
    LET Report(line, vm1) ==
            IF vm.ip = 0 \/ vm.chunk.lines = << >> \/ line.st # "ok"
            THEN Ended(vm1, "Panic")
            ELSE Ended(Reset([vm1 EXCEPT !.errs = Append(@, [k |-> "in script",
                                                            line |-> line.line])]),
                       "Runtime")
    IN  Report(get_line(vm.chunk, vm.ip - 1),
               [vm EXCEPT !.out = Append(@, [k |-> "message", s |-> msg, text |-> name])])

\* Vm::print_val
print_val(vm, val) ==
    [vm EXCEPT !.out = Append(@,
        [k |-> "print", s |-> "",
         text |-> IF val.t = "String"
                  THEN <<"\"">> \o InternerGet(vm.interner, val.n) \o <<"\"">>
                  ELSE ValueText(val)])]

\* the closure that Vm::run passes to binary_op for the opcode code
BinaryClosure(code, a, b) ==
    CASE code = "Greater" -> BoolV(NumLess(b, a))
      [] code = "Less" -> BoolV(NumLess(a, b))
      [] code = "Subtract" -> NumSub(a, b)
      [] code = "Multiply" -> NumMul(a, b)
      [] code = "Divide" -> NumDiv(a, b)

\* Vm::binary_op, called for the opcode code
binary_op(vm, code) ==
    IF HasPeek(vm, 1) /\ Peek(vm, 0).t = "Num" /\ Peek(vm, 1).t = "Num"
    THEN Push(Pop1(Pop1(vm)), BinaryClosure(code, Peek(vm, 1), Peek(vm, 0)))
    ELSE runtime_error(vm, "Operands must be numbers.", << >>)

\* Vm::read_constant: Some(value) as [ok |-> TRUE, v], None as ok = FALSE
read_constant(vm, code) ==
    LET Got(r, ok) ==
            [vm |-> [vm EXCEPT !.ip = r.ip],
             ok |-> ok,
             v |-> IF ok THEN vm.chunk.constants[r.val + 1] ELSE NilV]
        Read(r) == Got(r, r.val # None /\ r.val < Len(vm.chunk.constants))
    IN  Read(read_idx(vm.chunk, vm.ip, code))

\* Vm::read_string
read_string(vm, code) ==
    LET Got(r) == [vm |-> r.vm, ok |-> r.ok /\ r.v.t = "String", id |-> r.v.n]
    IN  Got(read_constant(vm, code))

\* the OpCode::Add arm of Vm::run with the number arm taken without a type test
ExecAddUnchecked(vm) ==
    IF HasPeek(vm, 1) /\ Peek(vm, 0).t = "String" /\ Peek(vm, 1).t = "String"
    THEN LET b == InternerGet(vm.interner, Peek(vm, 0).n)
             a == InternerGet(vm.interner, Peek(vm, 1).n)
             r == intern(vm.interner, a \o b)
         IN  Push([Pop1(Pop1(vm)) EXCEPT !.interner = r.interner], StringV(r.id))
    ELSE IF HasPeek(vm, 1)
    THEN Push(Pop1(Pop1(vm)), NumAdd(Peek(vm, 1), Peek(vm, 0)))
    ELSE Ended(vm, "Panic")

\* the OpCode::Add arm of Vm::run
ExecAdd(vm) ==
    IF HasPeek(vm, 1) /\ Peek(vm, 0).t = "String" /\ Peek(vm, 1).t = "String"
    THEN LET b == InternerGet(vm.interner, Peek(vm, 0).n)
             a == InternerGet(vm.interner, Peek(vm, 1).n)
             r == intern(vm.interner, a \o b)
         IN  Push([Pop1(Pop1(vm)) EXCEPT !.interner = r.interner], StringV(r.id))
    ELSE IF HasPeek(vm, 1) /\ Peek(vm, 0).t = "Num" /\ Peek(vm, 1).t = "Num"
    THEN Push(Pop1(Pop1(vm)), NumAdd(Peek(vm, 1), Peek(vm, 0)))
    ELSE runtime_error(vm, "Operands must be two numbers or two strings.", << >>)

\* the global arms of Vm::run with a DefineGlobal that starts a new map
ExecGlobalFresh(vm, code) ==
    LET Exec(ok, v1, name) ==
            IF ~ok THEN Ended(v1, "Panic")
            ELSE IF code \in {"GetGlobal", "GetGlobalLong"}
            THEN IF name \in DOMAIN v1.globals
                 THEN Push(v1, v1.globals[name])
                 ELSE runtime_error(v1, "Undefined variable", name)
            ELSE IF code \in {"DefineGlobal", "DefineGlobalLong"}
            THEN IF ~HasPeek(v1, 0) THEN Ended(v1, "Panic")
                 ELSE Pop1([v1 EXCEPT !.globals =
                                [k \in {name} |->
                                     IF k = name THEN Peek(v1, 0) ELSE v1.globals[k]]])
            ELSE IF name \in DOMAIN v1.globals
            THEN IF ~HasPeek(v1, 0) THEN Ended(v1, "Panic")
                 ELSE [v1 EXCEPT !.globals[name] = Peek(v1, 0)]
            ELSE runtime_error(v1, "Undefined variable", name)
        Read(r) == Exec(r.ok, r.vm, InternerGet(r.vm.interner, r.id))
    IN  Read(read_string(vm, code))

\* the GetGlobal / SetGlobal / DefineGlobal arms of Vm::run
ExecGlobal(vm, code) ==
    LET Exec(ok, v1, name) ==
            IF ~ok THEN Ended(v1, "Panic")
            ELSE IF code \in {"GetGlobal", "GetGlobalLong"}
            THEN IF name \in DOMAIN v1.globals
                 THEN Push(v1, v1.globals[name])
                 ELSE runtime_error(v1, "Undefined variable", name)
            ELSE IF code \in {"DefineGlobal", "DefineGlobalLong"}
            THEN IF ~HasPeek(v1, 0) THEN Ended(v1, "Panic")
                 ELSE Pop1([v1 EXCEPT !.globals =
                                [k \in DOMAIN v1.globals \cup {name} |->
                                     IF k = name THEN Peek(v1, 0) ELSE v1.globals[k]]])
            ELSE IF name \in DOMAIN v1.globals
            THEN IF ~HasPeek(v1, 0) THEN Ended(v1, "Panic")
                 ELSE [v1 EXCEPT !.globals[name] = Peek(v1, 0)]
            ELSE runtime_error(v1, "Undefined variable", name)
        Read(r) == Exec(r.ok, r.vm, InternerGet(r.vm.interner, r.id))
    IN  Read(read_string(vm, code))

\* Stack::get(idx): the value in slot idx counted from the bottom, when
\* there is one (Vm::run calls it; the file stack.rs does not define it)
StackGet(vm, idx) ==
    [ok |-> idx < Len(vm.stack),
     v |-> IF idx < Len(vm.stack) THEN vm.stack[idx + 1] ELSE NilV]

\* Stack::set(idx, value): slot idx is assigned, when there is such a slot
\* (Vm::run calls it; the file stack.rs does not define it)
StackSet(vm, idx, value) ==
    [ok |-> idx < Len(vm.stack),
     vm |-> IF idx < Len(vm.stack) THEN [vm EXCEPT !.stack[idx + 1] = value] ELSE vm]

\* the GetLocal / SetLocal arms of Vm::run
ExecLocal(vm, code) ==
    LET Set(r) == IF r.ok THEN r.vm ELSE Ended(r.vm, "Panic")
        Get(v1, r) == IF r.ok THEN Push(v1, r.v) ELSE Ended(v1, "Panic")
        Exec(slot, v1) ==
            IF slot = None THEN Ended(v1, "Panic")
            ELSE IF code \in {"GetLocal", "GetLocalLong"} THEN Get(v1, StackGet(v1, slot))
            ELSE IF ~HasPeek(v1, 0) THEN Ended(v1, "Panic")
            ELSE Set(StackSet(v1, slot, Peek(v1, 0)))
        Read(r) == Exec(r.val, [vm EXCEPT !.ip = r.ip])
    IN  Read(read_idx(vm.chunk, vm.ip, code))

\* the Jump / JumpIfFalse / Loop arms of Vm::run
ExecJump(vm, code) ==
    LET Exec(offset, v1) ==
            IF offset = None THEN Ended(v1, "Panic")
            ELSE IF code = "Jump" THEN [v1 EXCEPT !.ip = @ + offset]
            ELSE IF code = "Loop"
            THEN IF offset > v1.ip THEN Ended(v1, "Panic")
                 ELSE [v1 EXCEPT !.ip = @ - offset]
            ELSE IF ~HasPeek(v1, 0) THEN Ended(v1, "Panic")
            ELSE IF is_falsey(Peek(v1, 0)) THEN [v1 EXCEPT !.ip = @ + offset]
            ELSE v1
        Read(r) == Exec(r.val, [vm EXCEPT !.ip = r.ip])
    IN  Read(read_short(vm.chunk, vm.ip))

\* the Constant / ConstantLong arm of Vm::run
ExecConstant(vm, code) ==
    LET Got(r) == IF r.ok THEN Push(r.vm, r.v) ELSE Ended(r.vm, "Compile")
    IN  Got(read_constant(vm, code))

\* one round of the loop of Vm::run
RunStep(vm0) ==
    LET Dispatch(code, vm) ==
            CASE code = "None" -> Ended(vm, "Compile")
              [] code \in {"Constant", "ConstantLong"} -> ExecConstant(vm, code)
              [] code = "Nil" -> Push(vm, NilV)
              [] code = "True" -> Push(vm, BoolV(TRUE))
              [] code = "False" -> Push(vm, BoolV(FALSE))
              [] code = "Pop" -> IF HasPeek(vm, 0) THEN Pop1(vm) ELSE Ended(vm, "Panic")
              [] code \in {"GetLocal", "GetLocalLong", "SetLocal", "SetLocalLong"} ->
                     ExecLocal(vm, code)
              [] code \in {"GetGlobal", "GetGlobalLong", "DefineGlobal", "DefineGlobalLong",
                           "SetGlobal", "SetGlobalLong"} -> ExecGlobal(vm, code)
              [] code = "Equal" ->
                     IF HasPeek(vm, 1)
                     THEN Push(Pop1(Pop1(vm)), BoolV(ValueEq(Peek(vm, 1), Peek(vm, 0))))
                     ELSE Ended(vm, "Panic")
              [] code \in {"Greater", "Less", "Subtract", "Multiply", "Divide"} ->
                     binary_op(vm, code)
              [] code = "Add" -> ExecAdd(vm)
              [] code = "Not" ->
                     IF HasPeek(vm, 0) THEN Push(Pop1(vm), BoolV(is_falsey(Peek(vm, 0))))
                     ELSE Ended(vm, "Panic")
              [] code = "Negate" ->
                     IF HasPeek(vm, 0) /\ Peek(vm, 0).t = "Num"
                     THEN Push(Pop1(vm), NumNeg(Peek(vm, 0)))
                     ELSE runtime_error(vm, "Operand must be a number.", << >>)
              [] code = "Print" ->
                     IF HasPeek(vm, 0) THEN print_val(Pop1(vm), Peek(vm, 0))
                     ELSE Ended(vm, "Panic")
              [] code \in {"Jump", "JumpIfFalse", "Loop"} -> ExecJump(vm, code)
              [] code = "Return" -> Ended(vm, "Ok")
              [] code = "Byte" -> Ended(vm, "Panic")
        Fetched(f) == Dispatch(f.unit.op, [vm0 EXCEPT !.ip = f.ip])
    IN  Fetched(read_byte(vm0.chunk, vm0.ip))

(***************************************************************************)
(* The interpreter under file mode (main.rs run_file): one Vm, one call    *)
(* of interpret.  Interpret is the call up to the entry of run; Step is    *)
(* one round of run's loop.                                                *)
(***************************************************************************)
\* Vm::interpret that stores the compiler's chunk and resets ip before it
\* looks at the result of compile
InterpretStoreFirst(prog) ==
    /\ pc # "running"
    /\ LET Compiled(c) ==
               /\ source' = prog.toks
               /\ interner' = c.interner
               /\ errs' = errs \o c.diag
               /\ scopes' = c.scopes
               /\ IF c.fault
                  THEN /\ pc' = "done" /\ result' = "Panic"
                       /\ calls' = Append(calls, "Panic")
                       /\ UNCHANGED <<chunk, ip, ifs, trace>>
                  ELSE IF c.had_error
                  THEN /\ pc' = "done" /\ result' = "Compile"
                       /\ calls' = Append(calls, "Compile")
                       /\ chunk' = c.chunk
                       /\ ip' = 0
                       /\ UNCHANGED <<ifs, trace>>
                  ELSE /\ pc' = "running" /\ result' = "none"
                       /\ chunk' = c.chunk
                       /\ ip' = 0
                       /\ ifs' = c.ifs
                       /\ trace' = << >>
                       /\ calls' = calls
       IN  Compiled(compile(prog.toks, prog.eofLine, interner))
    /\ UNCHANGED <<stack, globals, out, writeLines, lastWml, internLog,
                   stackVars, scanVars>>

\* Vm::interpret up to the entry of Vm::run
Interpret(prog) ==
    /\ pc # "running"
    /\ LET Compiled(c) ==
               /\ source' = prog.toks
               /\ interner' = c.interner
               /\ errs' = errs \o c.diag
               /\ scopes' = c.scopes
               /\ IF c.fault
                  THEN /\ pc' = "done" /\ result' = "Panic"
                       /\ calls' = Append(calls, "Panic")
                       /\ UNCHANGED <<chunk, ip, ifs, trace>>
                  ELSE IF c.had_error
                  THEN /\ pc' = "done" /\ result' = "Compile"
                       /\ calls' = Append(calls, "Compile")
                       /\ UNCHANGED <<chunk, ip, ifs, trace>>
                  ELSE /\ pc' = "running" /\ result' = "none"
                       /\ chunk' = c.chunk
                       /\ ip' = 0
                       /\ ifs' = c.ifs
                       /\ trace' = << >>
                       /\ calls' = calls
       IN  Compiled(compile(prog.toks, prog.eofLine, interner))
    /\ UNCHANGED <<stack, globals, out, writeLines, lastWml, internLog,
                   stackVars, scanVars>>

Step ==
    /\ pc = "running"
    /\ LET Round(vm) ==
               /\ ip' = vm.ip
               /\ stack' = vm.stack
               /\ interner' = vm.interner
               /\ globals' = vm.globals
               /\ out' = vm.out
               /\ errs' = vm.errs
               /\ pc' = IF vm.st = "run" THEN "running" ELSE "done"
               /\ result' = IF vm.st = "run" THEN "none" ELSE vm.st
               /\ calls' = IF vm.st = "run" THEN calls ELSE Append(calls, vm.st)
       IN  Round(RunStep(VmOf(chunk, ip, stack, interner, globals, out, errs)))
    /\ trace' = Append(trace, [ip |-> ip, depth |-> Len(stack),
                               unit |-> get_op(chunk, ip),
                               top |-> IF stack = << >> THEN NilV
                                       ELSE stack[Len(stack)]])
    /\ UNCHANGED <<chunk, source, ifs, scopes, writeLines, lastWml, internLog,
                   stackVars, scanVars>>

(***************************************************************************)
(* Bounds of the model                                                     *)
(***************************************************************************)
\* code units written to the chunk under construction
MaxCode == 7
\* line numbers passed to the writes: 1..MaxLine
MaxLine == 2
\* write_maybe_long calls read back in one round-trip run
MaxLong == 1
\* indexes tried around 0, u8::MAX and u16::MAX
IdxSlack == 1
\* intern calls on one interner, and the length of the strings interned
MaxInterns == 5
MaxStrLen == 1
\* programs: operators in an expression, items in a block
MaxOps == 1
MaxStmts == 2
\* interpret calls on one Vm in interactive mode
MaxCalls == 3
\* constant pool: sizes below a full pool at the start, and above it at the end
PoolSlack == 1
MaxOver == 3
\* the N of a Stack<T, N> on its own, and the calls made on it
StackCap == 3
MaxStackOps == 6
\* the length of the texts of operator characters scanned
MaxOpLen == 3

(***************************************************************************)
(* stack.rs: Stack<T, N> with data an array indexed from 0 and top the     *)
(* number of live elements.  Every operation yields the stack after it,    *)
(* what it returned, and ok = FALSE when it panicked instead.              *)
(***************************************************************************)
\* T::default() and the values pushed
StackDefault == 0
StackValues == {1, 2}
\* the distances given to peek
PeekDistances == {0, 1, 2}

\* Option<&T>
NoneRef == [some |-> FALSE, v |-> StackDefault]
SomeRef(v) == [some |-> TRUE, v |-> v]

\* Stack::new
NewStack == [data |-> [i \in 0 .. StackCap - 1 |-> StackDefault], top |-> 0]

\* Stack::push: data[top] panics when top = N
push(s, value) ==
    IF s.top >= StackCap THEN [s |-> s, ret |-> NoneRef, ok |-> FALSE]
    ELSE [s |-> [data |-> [s.data EXCEPT ![s.top] = value], top |-> s.top + 1],
          ret |-> NoneRef, ok |-> TRUE]

\* Stack::pop: top -= 1 overflows when top = 0, which panics there or, with
\* wrapping arithmetic, at data[usize::MAX]
pop(s) ==
    IF s.top = 0 THEN [s |-> s, ret |-> NoneRef, ok |-> FALSE]
    ELSE [s |-> [s EXCEPT !.top = @ - 1], ret |-> SomeRef(s.data[s.top - 1]),
          ok |-> TRUE]

\* Stack::peek with top.checked_sub(distance)
peek_off_by_one(s, distance) ==
    LET At(idx) ==
            IF idx < 0 THEN NoneRef
            ELSE IF idx < StackCap THEN SomeRef(s.data[idx]) ELSE NoneRef
    IN  [s |-> s, ret |-> At(s.top - distance), ok |-> TRUE]

\* Stack::peek: top.checked_sub(distance + 1)?, then data.get(idx)
peek(s, distance) ==
    LET At(idx) ==
            IF idx < 0 THEN NoneRef
            ELSE IF idx < StackCap THEN SomeRef(s.data[idx]) ELSE NoneRef
    IN  [s |-> s, ret |-> At(s.top - (distance + 1)), ok |-> TRUE]

\* Stack::reset
reset(s) == [s |-> [s EXCEPT !.top = 0], ret |-> NoneRef, ok |-> TRUE]

(***************************************************************************)
(* The programs given to interpret, as the token streams scan_token yields *)
(* for them.  Top-level declaration number k is written on line k.         *)
(***************************************************************************)
Tk(typ, text) == Token(typ, text, 0)

TNum(d) == Tk("Number", <<d>>)
TStr(ch) == Tk("String", <<"\"", ch, "\"">>)
TId(ch) == Tk("Identifier", <<ch>>)

\* the lexeme of a token type that has one spelling
Lexeme(typ) ==
    CASE typ = "Nil" -> <<"n", "i", "l">>
      [] typ = "Var" -> <<"v", "a", "r">>
      [] typ = "Print" -> <<"p", "r", "i", "n", "t">>
      [] typ = "If" -> <<"i", "f">>
      [] typ = "Else" -> <<"e", "l", "s", "e">>
      [] typ = "Semicolon" -> <<";">>
      [] typ = "Equal" -> <<"=">>
      [] typ = "LParen" -> <<"(">>
      [] typ = "RParen" -> <<")">>
      [] typ = "LBrace" -> <<"{">>
      [] typ = "RBrace" -> <<"}">>
      [] typ = "Plus" -> <<"+">>
      [] typ = "Minus" -> <<"-">>
      [] typ = "Star" -> <<"*">>
      [] typ = "Slash" -> <<"/">>
      [] typ = "Bang" -> <<"!">>
      [] typ = "Less" -> <<"<">>
      [] typ = "Greater" -> <<">">>
      [] typ = "LessEqual" -> <<"<", "=">>
      [] typ = "GreaterEqual" -> <<">", "=">>
      [] typ = "EqualEqual" -> <<"=", "=">>
      [] typ = "BangEqual" -> <<"!", "=">>
      [] typ = "True" -> <<"t", "r", "u", "e">>
      [] typ = "False" -> <<"f", "a", "l", "s", "e">>

Kw(typ) == Tk(typ, Lexeme(typ))

BinaryOps ==
    {Kw(typ) : typ \in {"Plus", "Minus", "Star", "Slash", "Less", "Greater",
                        "LessEqual", "GreaterEqual", "EqualEqual", "BangEqual"}}

UnaryOps == {Kw("Minus"), Kw("Bang")}

Atoms == {<<TNum("1")>>, <<TNum("2")>>, <<Kw("Nil")>>, <<TId("a")>>}

\* expressions of up to MaxOps operators
RECURSIVE Exprs(_)
Exprs(k) ==
    IF k = 0 THEN Atoms
    ELSE Exprs(k - 1)
         \cup {e \o <<o>> \o a : e \in Exprs(k - 1), o \in BinaryOps, a \in Atoms}
         \cup {<<o>> \o e : o \in UnaryOps, e \in Exprs(k - 1)}
         \cup {<<Kw("LParen")>> \o e \o <<Kw("RParen")>> : e \in Exprs(k - 1)}
         \cup {<<TId("a"), Kw("Equal")>> \o e : e \in Exprs(k - 1)}

PrintOf(e) == <<Kw("Print")>> \o e \o <<Kw("Semicolon")>>
VarOf(name, e) == <<Kw("Var"), TId(name), Kw("Equal")>> \o e \o <<Kw("Semicolon")>>
BlockOf(body) == <<Kw("LBrace")>> \o body \o <<Kw("RBrace")>>
IfOf(cond, then) == <<Kw("If"), Kw("LParen")>> \o cond \o <<Kw("RParen")>> \o then
IfElseOf(cond, then, else) == IfOf(cond, then) \o <<Kw("Else")>> \o else

\* the concatenations of up to n members of S
RECURSIVE SeqsUpTo(_, _)
SeqsUpTo(S, n) ==
    IF n = 0 THEN {<< >>}
    ELSE SeqsUpTo(S, n - 1) \cup {b \o x : b \in SeqsUpTo(S, n - 1), x \in S}

Leaves == {PrintOf(<<TId("a")>>), <<TId("a"), Kw("Equal"), TNum("2"), Kw("Semicolon")>>}

VarDecls ==
    {VarOf("a", <<TNum("1")>>), VarOf("b", <<TId("a")>>), VarOf("a", <<TId("a")>>)}

Conds == {<<Kw("Nil")>>, <<TNum("1")>>, <<TId("a")>>}

\* statements whose blocks and arms hold no further block or if
Blocks1 == {BlockOf(b) : b \in SeqsUpTo(Leaves \cup VarDecls, MaxStmts)}
Arms1 == Leaves \cup Blocks1
Ifs1 ==
    {IfOf(c, t) : c \in Conds, t \in Arms1}
    \cup {IfElseOf(c, t, e) : c \in Conds, t \in Arms1, e \in Leaves}
Stmts1 == Leaves \cup Blocks1 \cup Ifs1

\* statements with one more level: a block or an if inside a block or an arm
InnerBlocks == {BlockOf(v \o l) : v \in VarDecls, l \in {<< >>} \cup Leaves}
InnerIfs ==
    {IfOf(c, t) : c \in Conds, t \in Leaves}
    \cup {IfElseOf(c, t, e) : c \in Conds, t \in Leaves, e \in Leaves}
Blocks2 ==
    {BlockOf(v \o i) : v \in {<< >>} \cup VarDecls, i \in InnerBlocks \cup InnerIfs}
Ifs2 ==
    {IfElseOf(c, t, e) : c \in Conds, t \in InnerBlocks, e \in InnerBlocks}
    \cup {IfOf(c, i) : c \in Conds, i \in InnerIfs}

\* the token stream of the declarations decls, declaration k on line k
RECURSIVE Lined(_, _)
Lined(decls, k) ==
    IF k > Len(decls) THEN << >>
    ELSE [i \in 1 .. Len(decls[k]) |-> [decls[k][i] EXCEPT !.line = k]]
         \o Lined(decls, k + 1)

Program(decls) ==
    [toks |-> Lined(decls, 1), eofLine |-> IF decls = << >> THEN 1 ELSE Len(decls)]

\* print e; alone (a is undefined), or after var a = "s";
ExprPrograms ==
    {Program(p \o <<PrintOf(e)>>) :
        p \in {<< >>, <<VarOf("a", <<TStr("s")>>)>>}, e \in Exprs(MaxOps)}

\* one declaration or statement, alone (a is undefined) or after var a = 1;
ControlPrograms ==
    {Program(p \o <<d>>) :
        p \in {<< >>, <<VarOf("a", <<TNum("1")>>)>>},
        d \in VarDecls \cup Stmts1 \cup Blocks2 \cup Ifs2}

\* print 1 o 2 p 3; for the arithmetic operators o, p
PrecedencePrograms ==
    {Program(<<PrintOf(<<TNum("1"), o, TNum("2"), p, TNum("3")>>)>>) :
        o \in {Kw("Plus"), Kw("Minus"), Kw("Star")},
        p \in {Kw("Plus"), Kw("Minus"), Kw("Star")}}

\* var a = x; { var a = y; print a; } print a;
ShadowOf(x, y) ==
    Program(<<VarOf("a", x),
              BlockOf(VarOf("a", y) \o PrintOf(<<TId("a")>>)),
              PrintOf(<<TId("a")>>)>>)

\* var a = x; { var b = y; { var a = b; a = a + a; print a; } print a; print b; }
\* print a;
ShadowDeepOf(x, y) ==
    Program(<<VarOf("a", x),
              BlockOf(VarOf("b", y)
                      \o BlockOf(VarOf("a", <<TId("b")>>)
                                 \o <<TId("a"), Kw("Equal"), TId("a"), Kw("Plus"),
                                      TId("a"), Kw("Semicolon")>>
                                 \o PrintOf(<<TId("a")>>))
                      \o PrintOf(<<TId("a")>>)
                      \o PrintOf(<<TId("b")>>)),
              PrintOf(<<TId("a")>>)>>)

\* { var a = x; { var a = y; print a; } print a; }
ShadowLocalOf(x, y) ==
    Program(<<BlockOf(VarOf("a", x)
                      \o BlockOf(VarOf("a", y) \o PrintOf(<<TId("a")>>))
                      \o PrintOf(<<TId("a")>>))>>)

ShadowValues == {<<TNum("1")>>, <<TNum("2")>>, <<TNum("3")>>}

ShadowPrograms ==
    {ShadowOf(x, y) : x \in ShadowValues, y \in ShadowValues}
    \cup {ShadowDeepOf(x, y) : x \in ShadowValues, y \in ShadowValues}
    \cup {ShadowLocalOf(x, y) : x \in ShadowValues, y \in ShadowValues}

\* var a = 1; on line 1, then on line 2 a read of or an assignment to the
\* global b, which is not defined
LinePrograms ==
    {Program(<<VarOf("a", <<TNum("1")>>), d>>) :
        d \in {PrintOf(<<TId("b")>>),
               <<TId("b"), Kw("Equal"), TNum("1"), Kw("Semicolon")>>}}

\* print x == y; for literals x and y of every kind
EqualAtoms ==
    {<<Kw("Nil")>>, <<Kw("True")>>, <<Kw("False")>>, <<TNum("1")>>,
     <<TStr("s")>>, <<TStr("t")>>}
EqualOf(x, y) == Program(<<PrintOf(x \o <<Kw("EqualEqual")>> \o y)>>)
EqualPrograms == {EqualOf(x, y) : x \in EqualAtoms, y \in EqualAtoms}

\* texts that do not compile: print 1 2 followed by + ; print 2 ; or by
\* print 2 ; or by nothing; print ( 1 2 ; and texts with a character that
\* is no token, @, where a statement is parsed and where tokens are skipped
UnexpectedChar == Tk("Error", "Unexpected character.")
ErrorTexts ==
    {<<Kw("Print"), TNum("1"), TNum("2"), Kw("Plus"), Kw("Semicolon"),
       Kw("Print"), TNum("2"), Kw("Semicolon")>>,
     <<Kw("Print"), TNum("1"), TNum("2"), Kw("Print"), TNum("2"), Kw("Semicolon")>>,
     <<Kw("Print"), TNum("1"), TNum("2")>>,
     <<Kw("Print"), Kw("LParen"), TNum("1"), TNum("2"), Kw("Semicolon")>>,
     <<Kw("Print"), UnexpectedChar, TNum("1"), Kw("Semicolon")>>,
     <<Kw("Print"), TNum("1"), TNum("2"), UnexpectedChar, Kw("Semicolon"),
       Kw("Print"), TNum("2"), TNum("2"), Kw("Semicolon"),
       Kw("Print"), TNum("1"), Kw("Semicolon")>>}
ErrorPrograms == {Program(<<t>>) : t \in ErrorTexts}

Programs ==
    ExprPrograms \cup ControlPrograms \cup PrecedencePrograms
        \cup ShadowPrograms \cup LinePrograms \cup EqualPrograms
        \cup ErrorPrograms

(***************************************************************************)
(* Writing a chunk: any sequence of write_chunk / write_maybe_long calls   *)
(***************************************************************************)
\* the (short, long) opcode pairs the compiler passes to write_maybe_long
Pairs ==
    { <<"Constant", "ConstantLong">>, <<"GetLocal", "GetLocalLong">>,
      <<"SetLocal", "SetLocalLong">>, <<"GetGlobal", "GetGlobalLong">>,
      <<"DefineGlobal", "DefineGlobalLong">>, <<"SetGlobal", "SetGlobalLong">> }

Indices ==
    (0 .. IdxSlack)
        \cup ((U8Max - IdxSlack) .. (U8Max + 1 + IdxSlack))
        \cup ((U16Max - IdxSlack) .. (U16Max + 1 + IdxSlack))

\* the write_maybe_long calls mixed into the line-table runs: one short and
\* one long form
LinePairs == { <<"Constant", "ConstantLong">> }
LineIndices == {U8Max, U8Max + 1}

NoWml ==
    [called |-> FALSE, count |-> 0, pair |-> <<"Constant", "ConstantLong">>,
     n |-> 0, start |-> 0, res |-> None, before |-> NewChunk]

\* Vm::new
NewVm ==
    /\ chunk = NewChunk
    /\ ip = 0
    /\ stack = << >>
    /\ interner = NewInterner
    /\ globals = << >>

InitChunk ==
    /\ NewVm
    /\ writeLines = << >>
    /\ lastWml = NoWml
    /\ internLog = << >>
    /\ out = << >>
    /\ errs = << >>
    /\ pc = "idle"
    /\ result = "none"
    /\ source = << >>
    /\ ifs = << >>
    /\ trace = << >>
    /\ scopes = << >>
    /\ calls = << >>
    /\ aStack = NewStack
    /\ stackLog = << >>
    /\ scanner = NewScanner(<< >>)
    /\ scanned = << >>

\* chunk.write_chunk(unit, line)
WriteChunk(unit, line) ==
    /\ Len(chunk.code) < MaxCode
    /\ chunk' = write_chunk(chunk, unit, line)
    /\ writeLines' = Append(writeLines, line)
    /\ UNCHANGED <<interner, lastWml, internLog>>
    /\ UNCHANGED vmVars

\* chunk.write_maybe_long(pair, n, line)
WriteMaybeLong(pair, n, line) ==
    /\ Len(chunk.code) + 3 <= MaxCode
    /\ LET r == write_maybe_long(chunk, pair, n, line)
       IN  /\ chunk' = r.chunk
           /\ writeLines' =
                  writeLines \o [i \in 1 .. (Len(r.chunk.code) - Len(chunk.code)) |-> line]
           /\ lastWml' = [called |-> TRUE, count |-> lastWml.count + 1,
                          pair |-> pair, n |-> n, start |-> Len(chunk.code),
                          res |-> r.res, before |-> chunk]
    /\ UNCHANGED <<interner, internLog>>
    /\ UNCHANGED vmVars

NextChunk ==
    \/ \E line \in 1 .. MaxLine : WriteChunk(Op("Return"), line)
    \/ \E pair \in LinePairs, n \in LineIndices, line \in 1 .. MaxLine :
           WriteMaybeLong(pair, n, line)

SpecChunk == InitChunk /\ [][NextChunk]_vars

(***************************************************************************)
(* Round trip: write_maybe_long with every pair and index, read back by    *)
(* the VM's read_byte / read_idx                                           *)
(***************************************************************************)
NextRoundTrip ==
    \E pair \in Pairs, n \in Indices, line \in 1 .. MaxLine :
        lastWml.count < MaxLong /\ WriteMaybeLong(pair, n, line)

SpecRoundTrip == InitChunk /\ [][NextRoundTrip]_vars

(***************************************************************************)
(* Interning: any sequence of intern calls on one StringInterner           *)
(***************************************************************************)
InternAlphabet == {"a", "b"}

RECURSIVE StringsUpTo(_)
StringsUpTo(n) ==
    IF n = 0 THEN { << >> }
    ELSE LET shorter == StringsUpTo(n - 1)
         IN  shorter \cup { Append(s, c) : s \in shorter, c \in InternAlphabet }

InternStrings == StringsUpTo(MaxStrLen)

InitIntern == InitChunk

\* interner.intern(s)
Intern(s) ==
    /\ Len(internLog) < MaxInterns
    /\ LET r == intern(interner, s)
       IN  /\ interner' = r.interner
           /\ internLog' = Append(internLog, [s |-> s, id |-> r.id])
    /\ UNCHANGED <<chunk, writeLines, lastWml>>
    /\ UNCHANGED vmVars

NextIntern == \E s \in InternStrings : Intern(s)

SpecIntern == InitIntern /\ [][NextIntern]_vars

(***************************************************************************)
(* Compilation with a constant pool that is nearly full: the source is n   *)
(* expression statements "1;" on line 1, followed by the declarations      *)
(* that CompileDecl draws.                                                 *)
(***************************************************************************)
\* the chunk of the compiler after n statements "1;": statement k adds
\* constant k - 1 and emits Constant k-1 Pop or ConstantLong hi lo Pop
PoolChunk(n) ==
    LET short == IF n <= U8Max + 1 THEN n ELSE U8Max + 1
        len == 3 * short + 4 * (n - short)
        UnitAt(p) ==
            IF p < 3 * short
            THEN CASE p % 3 = 0 -> Op("Constant")
                   [] p % 3 = 1 -> Byte(p \div 3)
                   [] p % 3 = 2 -> Op("Pop")
            ELSE LET q == p - 3 * short
                     k == short + (q \div 4)
                 IN  CASE q % 4 = 0 -> Op("ConstantLong")
                       [] q % 4 = 1 -> Byte(split_u16(k)[1])
                       [] q % 4 = 2 -> Byte(split_u16(k)[2])
                       [] q % 4 = 3 -> Op("Pop")
    IN  [code |-> [i \in 1 .. len |-> UnitAt(i - 1)],
         constants |-> [i \in 1 .. n |-> NumV(1, 1)],
         lines |-> IF n = 0 THEN << >> ELSE <<[offset |-> 0, line |-> 1]>>]

\* the pool size that the compilation starts from is PoolBase or more
PoolBase == U16Max + 1 - PoolSlack
PoolStarts == PoolBase .. (U16Max + 1)
PoolPrefix == PoolChunk(PoolBase)

\* A chunk that begins with PoolPrefix is kept in the variable chunk
\* without that beginning: base is its number of constants, code and
\* constants are what follows it.
Compress(ch) ==
    IF /\ Len(ch.code) >= Len(PoolPrefix.code)
       /\ Len(ch.constants) >= PoolBase
       /\ SubSeq(ch.code, 1, Len(PoolPrefix.code)) = PoolPrefix.code
       /\ SubSeq(ch.constants, 1, PoolBase) = PoolPrefix.constants
    THEN [base |-> PoolBase,
          code |-> SubSeq(ch.code, Len(PoolPrefix.code) + 1, Len(ch.code)),
          constants |-> SubSeq(ch.constants, PoolBase + 1, Len(ch.constants)),
          lines |-> ch.lines]
    ELSE [base |-> 0, code |-> ch.code, constants |-> ch.constants,
          lines |-> ch.lines]

\* the chunk that the variable chunk stands for
Expand(cc) ==
    IF cc.base = 0
    THEN [code |-> cc.code, constants |-> cc.constants, lines |-> cc.lines]
    ELSE [code |-> PoolPrefix.code \o cc.code,
          constants |-> PoolPrefix.constants \o cc.constants,
          lines |-> cc.lines]

\* Vec::len of the constants of the chunk that the variable chunk stands for
PoolSize == chunk.base + Len(chunk.constants)

PoolDecls ==
    {<<TNum("1"), Kw("Semicolon")>>, <<TStr("s"), Kw("Semicolon")>>, <<TId("a"), Kw("Semicolon")>>}

InitPool ==
    /\ \E n \in PoolStarts : chunk = Compress(PoolChunk(n))
    /\ ip = 0
    /\ stack = << >>
    /\ interner = NewInterner
    /\ globals = << >>
    /\ writeLines = << >>
    /\ lastWml = NoWml
    /\ internLog = << >>
    /\ out = << >>
    /\ errs = << >>
    /\ pc = "idle"
    /\ result = "none"
    /\ source = << >>
    /\ ifs = << >>
    /\ trace = << >>
    /\ scopes = << >>
    /\ calls = << >>
    /\ aStack = NewStack
    /\ stackLog = << >>
    /\ scanner = NewScanner(<< >>)
    /\ scanned = << >>

\* one round of the loop of Compiler::compile on the declaration decl
CompileDecl(decl) ==
    /\ PoolSize < U16Max + 1 + MaxOver
    /\ LET Compiled(c1) ==
               /\ chunk' = Compress(c1.chunk)
               /\ interner' = c1.interner
               /\ errs' = c1.diag
       IN  Compiled(declaration(advance(
               [NewCompiler([i \in 1 .. Len(decl) |-> [decl[i] EXCEPT !.line = 1]],
                            1, interner)
                    EXCEPT !.chunk = Expand(chunk), !.had_error = (errs # << >>),
                           !.diag = errs])))
    /\ UNCHANGED <<ip, stack, globals, out, pc, result, source, ifs, trace,
                   scopes, calls, writeLines, lastWml, internLog,
                   stackVars, scanVars>>

NextPool == \E decl \in PoolDecls : CompileDecl(decl)

SpecPool == InitPool /\ [][NextPool]_vars

\* file mode: one program is interpreted on a fresh Vm
Init == InitChunk

\* main.rs run_file: the file's text is interpreted once
RunFile ==
    /\ pc = "idle"
    /\ \E prog \in Programs : Interpret(prog)

Next ==
    \/ RunFile
    \/ Step

Spec == Init /\ [][Next]_vars

(***************************************************************************)
(* Interactive mode (main.rs repl): one Vm, one interpret call per line    *)
(* read; every line is a source text of its own, on line 1.                *)
(***************************************************************************)
\* the lines typed: definitions of the globals a and b, assignments to a,
\* reads of a that succeed or fail at run time by its value, and lines that
\* do not compile (one of them after interning a name)
ReplLines ==
    {Program(<<d>>) : d \in
        {VarOf("a", <<TNum("1")>>),
         VarOf("a", <<TStr("s")>>),
         VarOf("b", <<TId("a")>>),
         <<TId("a"), Kw("Equal"), TNum("2"), Kw("Semicolon")>>,
         <<TId("a"), Kw("Equal"), TStr("t"), Kw("Semicolon")>>,
         PrintOf(<<TId("a")>>),
         PrintOf(<<TId("a"), Kw("Plus"), TNum("1")>>),
         PrintOf(<<TId("a"), Kw("Plus"), TId("a")>>),
         PrintOf(<<Kw("LParen")>>),
         <<Kw("Var"), TId("b"), Kw("Equal"), Kw("Semicolon")>>,
         BlockOf(VarOf("a", <<TId("a")>>))}}

\* main.rs repl: the loop's body for a line read; a panic ends the process
ReplLine ==
    /\ pc # "running"
    /\ result # "Panic"
    /\ Len(calls) < MaxCalls
    /\ \E prog \in ReplLines : Interpret(prog)

NextRepl ==
    \/ ReplLine
    \/ Step

SpecRepl == Init /\ [][NextRepl]_vars

(***************************************************************************)
(* A long program (vm.rs tests::test_vm): NumGlobals declarations          *)
(* var a<i> = "s<i>"; for i = 0, 1, ... and then print a<NumGlobals - 1>;  *)
(* all on line 1.  interpret is taken one round of compile's loop at a     *)
(* time: the chunk under construction is kept in chunk, the diagnostics    *)
(* in errs, and pc is "idle" until run is entered.                         *)
(***************************************************************************)
\* one more global than a one-byte index can count: the last name and the
\* last string are constants past index 2 * u8::MAX
NumGlobals == U8Max + 2

LongName(i) == Tk("Identifier", <<"a">> \o NatText(i))

\* var a<i> = "s<i>";
LongDecl(i) ==
    <<Kw("Var"), LongName(i), Kw("Equal"),
      Tk("String", <<"\"", "s">> \o NatText(i) \o <<"\"">>), Kw("Semicolon")>>

\* the declarations compiled so far: each added a name and a string constant
GlobalsCompiled == Len(chunk.constants) \div 2

\* the compiler between two declarations of the text, with decl ahead
CompilerAt(decl) ==
    [NewCompiler(Lined(<<decl>>, 1), 1, interner) EXCEPT
         !.chunk = chunk, !.had_error = (errs # << >>), !.diag = errs]

\* one round of the loop of Compiler::compile: the next var declaration
CompileGlobal ==
    /\ pc = "idle"
    /\ GlobalsCompiled < NumGlobals
    /\ LET Compiled(c1) ==
               /\ chunk' = c1.chunk
               /\ interner' = c1.interner
               /\ errs' = c1.diag
       IN  Compiled(declaration(advance(CompilerAt(LongDecl(GlobalsCompiled)))))
    /\ UNCHANGED <<ip, stack, globals, out, pc, result, source, ifs, trace,
                   scopes, calls, writeLines, lastWml, internLog,
                   stackVars, scanVars>>

\* the last round of the loop for the statement last, end_compiler, and
\* Vm::interpret to the entry of run
FinishWith(last) ==
    /\ pc = "idle"
    /\ GlobalsCompiled = NumGlobals
    /\ LET Compiled(c) ==
               /\ interner' = c.interner
               /\ errs' = c.diag
               /\ chunk' = c.chunk
               /\ ip' = 0
               /\ IF c.fault
                  THEN /\ pc' = "done" /\ result' = "Panic"
                       /\ calls' = Append(calls, "Panic")
                  ELSE IF c.had_error
                  THEN /\ pc' = "done" /\ result' = "Compile"
                       /\ calls' = Append(calls, "Compile")
                  ELSE /\ pc' = "running" /\ result' = "none"
                       /\ calls' = calls
       IN  Compiled(CompileLoop(advance(CompilerAt(last))))
    /\ UNCHANGED <<stack, globals, out, source, ifs, trace, scopes,
                   writeLines, lastWml, internLog,
                   stackVars, scanVars>>

\* the text ends with print a256;
FinishCompile ==
    FinishWith(<<Kw("Print"), LongName(NumGlobals - 1), Kw("Semicolon")>>)

\* the text ends with an assignment to a global: a256 = a0; or b = a0;
\* (b is not defined)
LongAssigns ==
    {<<name, Kw("Equal"), LongName(0), Kw("Semicolon")>> :
        name \in {LongName(NumGlobals - 1), TId("b")}}
FinishAssign == \E last \in LongAssigns : FinishWith(last)

NextLong ==
    \/ CompileGlobal
    \/ FinishCompile
    \/ Step

SpecLong == Init /\ [][NextLong]_vars

NextLongSet ==
    \/ CompileGlobal
    \/ FinishAssign
    \/ Step

SpecLongSet == Init /\ [][NextLongSet]_vars

(***************************************************************************)
(* A Stack on its own: any sequence of push, pop, peek and reset calls,    *)
(* to the first that panics                                                *)
(***************************************************************************)
\* the call op(arg) on aStack, with r what it yields
StackCall(op, arg, r) ==
    /\ result # "Panic"
    /\ Len(stackLog) < MaxStackOps
    /\ aStack' = r.s
    /\ stackLog' = Append(stackLog, [op |-> op, arg |-> arg, ret |-> r.ret,
                                     ok |-> r.ok])
    /\ result' = IF r.ok THEN result ELSE "Panic"
    /\ UNCHANGED <<chunk, interner, writeLines, lastWml, internLog, ip, stack,
                   globals, out, errs, pc, source, ifs, trace, scopes, calls,
                   scanVars>>

StackPush == \E value \in StackValues : StackCall("push", value, push(aStack, value))
StackPop == StackCall("pop", 0, pop(aStack))
StackPeek == \E distance \in PeekDistances : StackCall("peek", distance, peek(aStack, distance))
StackReset == StackCall("reset", 0, reset(aStack))

NextStack ==
    \/ StackPush
    \/ StackPop
    \/ StackPeek
    \/ StackReset

SpecStack == Init /\ [][NextStack]_vars

(***************************************************************************)
(* A Scanner on its own: scan_token is called on a text until it returns   *)
(* Eof                                                                     *)
(***************************************************************************)
\* the keywords of the language and their texts
Keywords ==
    {[typ |-> "And", text |-> <<"a", "n", "d">>],
     [typ |-> "Class", text |-> <<"c", "l", "a", "s", "s">>],
     [typ |-> "Else", text |-> <<"e", "l", "s", "e">>],
     [typ |-> "False", text |-> <<"f", "a", "l", "s", "e">>],
     [typ |-> "For", text |-> <<"f", "o", "r">>],
     [typ |-> "Fun", text |-> <<"f", "u", "n">>],
     [typ |-> "If", text |-> <<"i", "f">>],
     [typ |-> "Nil", text |-> <<"n", "i", "l">>],
     [typ |-> "Or", text |-> <<"o", "r">>],
     [typ |-> "Print", text |-> <<"p", "r", "i", "n", "t">>],
     [typ |-> "Return", text |-> <<"r", "e", "t", "u", "r", "n">>],
     [typ |-> "Super", text |-> <<"s", "u", "p", "e", "r">>],
     [typ |-> "This", text |-> <<"t", "h", "i", "s">>],
     [typ |-> "True", text |-> <<"t", "r", "u", "e">>],
     [typ |-> "Var", text |-> <<"v", "a", "r">>],
     [typ |-> "While", text |-> <<"w", "h", "i", "l", "e">>]}

\* the words scanned: every keyword, each of its proper prefixes, the keyword
\* with one more character after it or before it, and some other words
ExtChars == {"s", "e", "_", "1"}
OtherWords ==
    {<<"x">>,
     <<"f">>,
     <<"t">>,
     <<"f", "a">>,
     <<"f", "o">>,
     <<"f", "u">>,
     <<"t", "h">>,
     <<"t", "r">>,
     <<"f", "o", "o">>,
     <<"t", "h", "u", "s">>,
     <<"A", "n", "d">>,
     <<"I", "F">>,
     <<"n", "I", "l">>,
     <<"_">>,
     <<"a", "1">>}
ScanWords ==
    {k.text : k \in Keywords}
    \cup UNION {{SubSeq(k.text, 1, n) : n \in 1 .. Len(k.text) - 1} : k \in Keywords}
    \cup {k.text \o <<c>> : k \in Keywords, c \in ExtChars}
    \cup {<<c>> \o k.text : k \in Keywords, c \in {"s", "e", "_"}}
    \cup OtherWords

\* texts of ! = < > and blanks
OpAlphabet == {"!", "=", "<", ">", " "}
OpTexts == UNION {[1 .. n -> OpAlphabet] : n \in 1 .. MaxOpLen}

\* the text of tests::test_scanner, and one of keywords among their prefixes
\* and extensions with operators
TestText ==
    <<"(", ")", "{", "}", ",", ".", "-", "+", ";", "/", "*", " ", " ",
          " ", "!", " ", "!", "=", " ", "=", "=", " ", "=", " ", ">", " ",
          ">", "=", " ", "<", " ", "<", "=", " ", "t", "e", "s", "t", " ",
          "\"", "s", "t", "r", "i", "n", "g", "\"", " ", "5", ".", "0",
          "\n", " ", " ", " ", " ", " ", " ", " ", " ", " ", " ", " ", " ",
          " ", " ", " ", " ", " ", " ", " ", " ", " ", "a", "n", "d", " ",
          "c", "l", "a", "s", "s", " ", "e", "l", "s", "e", " ", "f", "a",
          "l", "s", "e", " ", "f", "o", "r", " ", "f", "u", "n", " ", "i",
          "f", " ", "n", "i", "l", " ", "o", "r", " ", "p", "r", "i", "n",
          "t", " ", "r", "e", "t", "u", "r", "n", "\n", " ", " ", " ", " ",
          " ", " ", " ", " ", " ", " ", " ", " ", " ", " ", " ", " ", " ",
          " ", " ", " ", " ", "s", "u", "p", "e", "r", " ", "t", "h", "i",
          "s", " ", "t", "r", "u", "e", " ", "v", "a", "r", " ", "w", "h",
          "i", "l", "e">>
MixedText ==
    <<"a", "n", "d", " ", "a", "n", " ", "a", "n", "d", "y", " ", "!",
          "=", " ", "!", " ", "=", " ", "f", "o", "r", "e", " ", "f", "o",
          "r", " ", "f">>

ScanTexts == ScanWords \cup OpTexts \cup {TestText, MixedText}

InitScan ==
    /\ NewVm
    /\ writeLines = << >>
    /\ lastWml = NoWml
    /\ internLog = << >>
    /\ out = << >>
    /\ errs = << >>
    /\ pc = "idle"
    /\ result = "none"
    /\ source = << >>
    /\ ifs = << >>
    /\ trace = << >>
    /\ scopes = << >>
    /\ calls = << >>
    /\ aStack = NewStack
    /\ stackLog = << >>
    /\ \E text \in ScanTexts : scanner = NewScanner(text)
    /\ scanned = << >>

\* one call of scan_token
ScanToken ==
    /\ IF scanned = << >> THEN TRUE ELSE scanned[Len(scanned)].tok.typ # "Eof"
    /\ LET Returned(r) ==
               /\ scanner' = r.sc
               /\ scanned' = Append(scanned, [tok |-> r.tok, start |-> r.sc.start,
                                              current |-> r.sc.current])
       IN  Returned(Scanner_scan_token(scanner))
    /\ UNCHANGED <<chunk, interner, writeLines, lastWml, internLog, ip, stack,
                   globals, out, errs, pc, result, source, ifs, trace, scopes,
                   calls, stackVars>>

NextScan == ScanToken

SpecScan == InitScan /\ [][NextScan]_vars

(***************************************************************************)
(* The Equal instruction on its own: run on the chunk Constant a,          *)
(* Constant b, Equal, Return, for values a and b                           *)
(***************************************************************************)
\* the values compared: nil, the booleans, integers, 1 / 1000000001 (which
\* is below FLOAT_TOL), the infinities, NaN, and two strings
EqualValues ==
    {NilV, BoolV(TRUE), BoolV(FALSE),
     NumV(0, 1), NumV(1, 1), NumV(2, 1), NumV(-1, 1), NumV(1, FloatTolDen + 1),
     NumV(1, 0), NumV(-1, 0), NumV(0, 0),
     StringV(0), StringV(1)}

\* the chunk whose code pushes a, pushes b and executes Equal
EqualChunk(a, b) ==
    LET Pushed(ch) ==
            write_chunk(write_chunk(
                write_maybe_long(
                    write_maybe_long(ch, <<"Constant", "ConstantLong">>, 0, 1).chunk,
                    <<"Constant", "ConstantLong">>, 1, 1).chunk,
                Op("Equal"), 1), Op("Return"), 1)
    IN  Pushed([NewChunk EXCEPT !.constants = <<a, b>>])

InitEqual ==
    /\ \E a \in EqualValues, b \in EqualValues : chunk = EqualChunk(a, b)
    /\ ip = 0
    /\ stack = << >>
    /\ interner = NewInterner
    /\ globals = << >>
    /\ writeLines = << >>
    /\ lastWml = NoWml
    /\ internLog = << >>
    /\ out = << >>
    /\ errs = << >>
    /\ pc = "running"
    /\ result = "none"
    /\ source = << >>
    /\ ifs = << >>
    /\ trace = << >>
    /\ scopes = << >>
    /\ calls = << >>
    /\ aStack = NewStack
    /\ stackLog = << >>
    /\ scanner = NewScanner(<< >>)
    /\ scanned = << >>

NextEqual == Step

SpecEqual == InitEqual /\ [][NextEqual]_vars

(***************************************************************************)
(* C2 .. C7                                                                *)
(***************************************************************************)
\* what the VM reads back at the offset the last write_maybe_long started at:
\* read_byte for the opcode, then read_idx with that opcode
ReadBack ==
    LET r1 == read_byte(chunk, lastWml.start)
    IN  [op |-> r1.unit.op, idx |-> read_idx(chunk, r1.ip, r1.unit.op)]

\* C2: after write_maybe_long(pair, n, line) with n <= 65535, the VM reading
\* the emitted opcode and calling read_idx with it recovers n and leaves ip on
\* the unit after the last operand byte; with n > 65535 the call fails and
\* appends nothing.
C2_RoundTrip ==
    lastWml.called =>
        IF lastWml.n <= U16Max
        THEN /\ lastWml.res = lastWml.n
             /\ ReadBack.op \in {lastWml.pair[1], lastWml.pair[2]}
             /\ ReadBack.idx.val = lastWml.n
             /\ ReadBack.idx.ip = Len(chunk.code)
        ELSE /\ lastWml.res = None
             /\ chunk = lastWml.before

\* C3: intern(s) and intern(t), called one after the other, return the same
\* id iff s = t; every id handed out so far is still the id of its string,
\* and interning a string that is present adds no entry.
C3_InternInjective ==
    /\ \A s, t \in InternStrings :
           LET r1 == intern(interner, s)
               r2 == intern(r1.interner, t)
           IN  (r1.id = r2.id) <=> (s = t)
    /\ \A i, j \in 1 .. Len(internLog) :
           (internLog[i].id = internLog[j].id) <=> (internLog[i].s = internLog[j].s)
    /\ \A i \in 1 .. Len(internLog) :
           LET r == intern(interner, internLog[i].s)
           IN  r.id = internLog[i].id /\ r.interner = interner
    /\ Len(interner.vals) = Cardinality({internLog[i].s : i \in 1 .. Len(internLog)})

C3_Witness ==
    \E i, j, k \in 1 .. Len(internLog) :
        /\ i < j
        /\ internLog[i].s = internLog[j].s
        /\ internLog[k].s # internLog[i].s

\* C4: get(id) returns s for every id an intern(s) call returned, also after
\* the intern calls that followed it.
C4_GetReturnsInterned ==
    \A i \in 1 .. Len(internLog) :
        InternerGet(interner, internLog[i].id) = internLog[i].s

C4_Witness ==
    /\ Len(internLog) >= 3
    /\ Len(interner.vals) >= 3
    /\ InternerGet(interner, internLog[1].id) = internLog[1].s

NonDecreasing(seq) == \A i \in 1 .. (Len(seq) - 1) : seq[i] <= seq[i + 1]

GetLineMonotone ==
    \A i, j \in 0 .. (Len(chunk.code) - 1) :
        /\ get_line(chunk, i).st = "ok"
        /\ i <= j => get_line(chunk, i).line <= get_line(chunk, j).line

\* C5 as claimed: whatever the line arguments of the writes were, get_line(i)
\* is non-decreasing in i.
C5_GetLineMonotoneAnyLines == GetLineMonotone

\* C5 as amended: when the line arguments of the writes never decreased (as the
\* compiler's do not), get_line(i) returns for every offset and is
\* non-decreasing in i.
C5_GetLineMonotone == NonDecreasing(writeLines) => GetLineMonotone

C5_Witness ==
    /\ NonDecreasing(writeLines)
    /\ Len(chunk.lines) >= 2
    /\ Len(chunk.code) > Len(chunk.lines) + 1

\* the line-table entry with the largest starting offset <= offset
EntryFor(offset) ==
    CHOOSE e \in {chunk.lines[k] : k \in 1 .. Len(chunk.lines)} :
        /\ e.offset <= offset
        /\ \A k \in 1 .. Len(chunk.lines) :
               chunk.lines[k].offset <= offset => chunk.lines[k].offset <= e.offset

\* C6: for every offset of a non-empty chunk get_line returns (no index out
\* of range, no underflow, no endless loop) the line of the entry with the
\* largest starting offset <= offset, which is the line passed to the write
\* that made the unit at that offset.
C6_GetLineCorrect ==
    \A offset \in 0 .. (Len(chunk.code) - 1) :
        LET r == get_line(chunk, offset)
        IN  /\ r.st = "ok"
            /\ \E k \in 1 .. Len(chunk.lines) : chunk.lines[k].offset <= offset
            /\ r.line = EntryFor(offset).line
            /\ r.line = writeLines[offset + 1]

C6_Witness ==
    /\ Len(chunk.lines) >= 4
    /\ Len(chunk.code) > Len(chunk.lines)
    /\ ~NonDecreasing(writeLines)

\* C7: the line table is non-empty exactly when the code is, its offsets are
\* strictly increasing from 0, and no two consecutive entries carry the same
\* line.
C7_LineTableShape ==
    /\ (Len(chunk.lines) > 0) <=> (Len(chunk.code) > 0)
    /\ Len(chunk.lines) > 0 => chunk.lines[1].offset = 0
    /\ \A k \in 1 .. (Len(chunk.lines) - 1) :
           /\ chunk.lines[k].offset < chunk.lines[k + 1].offset
           /\ chunk.lines[k].line # chunk.lines[k + 1].line
    /\ \A k \in 1 .. Len(chunk.lines) : chunk.lines[k].offset < Len(chunk.code)

C7_Witness ==
    /\ Len(chunk.lines) >= 3
    /\ \E i \in 1 .. (Len(writeLines) - 1) : writeLines[i] = writeLines[i + 1]


(***************************************************************************)
(* The run of a compiled program                                           *)
(***************************************************************************)
\* the instruction at offset o has been fetched
Visited(o) == \E i \in 1 .. Len(trace) : trace[i].ip = o
\* the fetch of the instruction at offset o (no instruction is fetched twice)
EntryAt(o) == trace[CHOOSE i \in 1 .. Len(trace) : trace[i].ip = o]
\* an instruction at one of the offsets lo .. hi has been fetched
VisitedIn(lo, hi) == \E i \in 1 .. Len(trace) : trace[i].ip \in lo .. hi

\* C1: when interpret returns Ok (the source compiled without an error and
\* ran without a runtime error), the VM's value stack is empty.
C1_StackEmptyOnOk == (pc = "done" /\ result = "Ok") => stack = << >>

\* an Ok run of a program with an if statement inside a block that holds a
\* local: the stack was two deep on the way and something was printed
C1_Witness ==
    /\ pc = "done" /\ result = "Ok"
    /\ ifs # << >>
    /\ out # << >>
    /\ \E i \in 1 .. Len(trace) : trace[i].depth >= 2
    /\ stack = << >>

\* C8: in every state reached while compiling, the constant pool holds at
\* most 65536 values (once it is full, a further constant does not grow it).
C8_PoolBounded == PoolSize <= U16Max + 1

Top2AreNum ==
    /\ Len(stack) >= 2
    /\ stack[Len(stack)].t = "Num" /\ stack[Len(stack) - 1].t = "Num"

Top2AreString ==
    /\ Len(stack) >= 2
    /\ stack[Len(stack)].t = "String" /\ stack[Len(stack) - 1].t = "String"

\* the instruction about to be executed
NextOp == IF pc = "running" THEN get_op(chunk, ip).op ELSE "None"

\* the step ends the run with Err(Runtime) and the message msg, with no
\* value left on the stack
EndsWithRuntimeError(msg) ==
    /\ pc' = "done" /\ result' = "Runtime"
    /\ out' = Append(out, [k |-> "message", s |-> msg, text |-> << >>])
    /\ stack' = << >>

\* C9: Subtract, Multiply or Divide on two top values that are not both Num
\* ends the run with Err(Runtime) and "Operands must be numbers."; Add on two
\* top values that are neither both Num nor both String ends it with
\* Err(Runtime) and "Operands must be two numbers or two strings."; in both
\* cases no result is pushed (the stack is left empty).
C9_OperandTypeErrors ==
    [][/\ (NextOp \in {"Subtract", "Multiply", "Divide"} /\ ~Top2AreNum)
            => EndsWithRuntimeError("Operands must be numbers.")
       /\ (NextOp = "Add" /\ ~Top2AreNum /\ ~Top2AreString)
            => EndsWithRuntimeError("Operands must be two numbers or two strings.")]_vars

\* the run was ended by an Add of a String and a Num
C9_Witness ==
    /\ pc = "done" /\ result = "Runtime"
    /\ trace # << >>
    /\ trace[Len(trace)].unit.op = "Add"
    /\ trace[Len(trace)].top.t = "Num"
    /\ \E i \in 1 .. Len(trace) : trace[i].top.t = "String"
    /\ out = <<[k |-> "message", s |-> "Operands must be two numbers or two strings.",
                text |-> << >>]>>
    /\ stack = << >>

\* the condition of the if statement r, as JumpIfFalse found it, was truthy
Truthy(r) == ~is_falsey(EntryAt(r.jif).top)

\* control is at the instruction that follows the if statement r
AfterIf(r) == pc = "running" /\ ip = r.end

\* C10: for every compiled if statement, with or without else: the then arm
\* is executed only if the condition is truthy and the else arm only if it is
\* falsey; when control reaches the instruction after the if statement, the
\* arm chosen by the condition has been executed, and the stack depth equals
\* the depth before the condition was evaluated.
C10_IfElse ==
    \A k \in 1 .. Len(ifs) :
        LET r == ifs[k]
        IN  Visited(r.jif) =>
                /\ VisitedIn(r.thenPop, r.jump) => Truthy(r)
                /\ VisitedIn(r.elsePop, r.end - 1) => ~Truthy(r)
                /\ AfterIf(r) =>
                       /\ Len(stack) = EntryAt(r.cond).depth
                       /\ Truthy(r) => \A o \in r.thenPop .. r.thenPop + 1 :
                                           o <= r.jump => Visited(o)
                       /\ ~Truthy(r) => \A o \in r.elsePop .. r.elsePop + 1 :
                                           o < r.end => Visited(o)

\* control is after an if statement with an else arm, inside a block with a
\* local on the stack, whose condition was falsey and whose else arm ran
C10_Witness ==
    \E k \in 1 .. Len(ifs) :
        LET r == ifs[k]
        IN  /\ r.hasElse
            /\ Visited(r.jif) /\ ~Truthy(r)
            /\ AfterIf(r)
            /\ Visited(r.elsePop + 1)
            /\ Len(stack) >= 1

\* the fetch at offset o saw the stack with depth d
DepthAt(o, d) == \E i \in 1 .. Len(trace) : trace[i].ip = o /\ trace[i].depth = d

\* C11: for every block closed by end_scope: the locals declared in it are
\* the ones above the locals found at begin_scope; end_scope emits exactly
\* one Pop for each of them and nothing else, and leaves the locals array as
\* it was at begin_scope; at run time, control that entered the block leaves
\* it with the stack depth it entered with.
C11_EndScope ==
    \A k \in 1 .. Len(scopes) :
        LET r == scopes[k]
            declared == Len(r.localsAtEnd) - Len(r.localsAtBegin)
        IN  /\ declared >= 0
            /\ SubSeq(r.localsAtEnd, 1, Len(r.localsAtBegin)) = r.localsAtBegin
            /\ r.emitted = [i \in 1 .. declared |-> Op("Pop")]
            /\ r.localsAfter = r.localsAtBegin
            /\ \A i \in Len(r.localsAtBegin) + 1 .. Len(r.localsAtEnd) :
                   r.localsAtEnd[i].depth = r.depth
            /\ (pc = "running" /\ ip = r.end /\ Visited(r.begin))
                   => DepthAt(r.begin, Len(stack))

\* control has left a block that declared a local, inside a block with a
\* local of its own
C11_Witness ==
    \E k \in 1 .. Len(scopes) :
        LET r == scopes[k]
        IN  /\ Len(r.localsAtBegin) >= 1
            /\ Len(r.localsAtEnd) > Len(r.localsAtBegin)
            /\ pc = "running" /\ ip = r.end /\ Visited(r.begin)
            /\ Len(stack) = Len(r.localsAtBegin)

\* the scanner's line at the end of the text toks was scanned from
EofLineOf(toks) == IF toks = << >> THEN 1 ELSE toks[Len(toks)].line

\* C12: an interpret call returns Err(Compile) iff had_error is true at the
\* end of compile, and no round of the run loop returns it; a call that
\* returns Err(Compile) does not enter the run loop (no opcode is fetched)
\* and leaves the VM's chunk, ip, stack and globals as they were.
C12_CompileErrorIff ==
    [][IF pc # "running"
       THEN LET Called(c) ==
                    /\ (result' = "Compile") <=> c.had_error
                    /\ c.had_error =>
                           /\ pc' = "done"
                           /\ UNCHANGED <<chunk, ip, stack, globals, trace>>
                    /\ ~c.had_error => pc' = "running"
            IN  Called(compile(source', EofLineOf(source'), interner))
       ELSE result' # "Compile"]_vars

\* a call returned Err(Compile) on a Vm that holds the chunk, the ip and a
\* global of an earlier call that ran
C12_Witness ==
    /\ pc = "done" /\ result = "Compile"
    /\ Len(calls) >= 2
    /\ \E i \in 1 .. Len(calls) - 1 : calls[i] = "Ok"
    /\ chunk.code # << >> /\ ip > 0
    /\ DOMAIN globals # {}

\* the step raised a runtime error: its message was written
RaisesRuntimeError ==
    /\ pc = "running"
    /\ Len(out') = Len(out) + 1
    /\ out'[Len(out')].k = "message"

\* C13: a round of run that raises a runtime error makes interpret return
\* Err(Runtime); when interpret returns Err(Runtime) the stack is empty and
\* the line written in "[line N] in script" is the line recorded in the
\* line table for the offset of the opcode that was executed, whether or
\* not operand bytes follow it.
C13_RuntimeErrorLine ==
    [][/\ RaisesRuntimeError => result' = "Runtime"
       /\ (pc = "running" /\ result' = "Runtime") =>
              /\ pc' = "done"
              /\ RaisesRuntimeError
              /\ stack' = << >>
              /\ errs' = Append(errs, [k |-> "in script",
                                       line |-> EntryFor(ip).line])]_vars

\* a runtime error raised on line 2 by an opcode with an operand byte
C13_Witness ==
    /\ pc = "done" /\ result = "Runtime"
    /\ trace # << >>
    /\ trace[Len(trace)].unit.op \in {"GetGlobal", "SetGlobal"}
    /\ errs # << >>
    /\ errs[Len(errs)] = [k |-> "in script", line |-> 2]
    /\ stack = << >>

\* the run was ended by a read of a global that is not defined
UndefinedRead ==
    /\ pc = "done"
    /\ trace # << >>
    /\ trace[Len(trace)].unit.op \in {"GetGlobal", "GetGlobalLong"}
    /\ result # "Ok"

\* C14: a read of a global that was never defined makes interpret return
\* Err(Runtime) and writes both "Undefined variable 'name'" and
\* "[line N] in script" to standard error, and none of it to standard
\* output.
C14_UndefinedOnStderr ==
    UndefinedRead =>
        /\ result = "Runtime"
        /\ \E i \in 1 .. Len(errs) : errs[i].k = "in script"
        /\ \E i \in 1 .. Len(errs) :
               errs[i].k = "message" /\ errs[i].s = "Undefined variable"
        /\ \A i \in 1 .. Len(out) : out[i].k # "message"

\* what C14 says apart from the stream of the message: Err(Runtime), with
\* the line of the read in "[line N] in script" on standard error
C14_UndefinedIsRuntimeError ==
    UndefinedRead =>
        /\ result = "Runtime"
        /\ errs # << >>
        /\ errs[Len(errs)].k = "in script"
        /\ out # << >>
        /\ out[Len(out)].k = "message"
        /\ out[Len(out)].s = "Undefined variable"

\* the round of run about to be taken assigns the stack top to a global
AssignsGlobal ==
    /\ pc = "running"
    /\ NextOp \in {"DefineGlobal", "DefineGlobalLong", "SetGlobal", "SetGlobalLong"}
    /\ stack # << >>

\* C15: on one Vm, across interpret calls whatever they return, a global
\* once defined stays defined, and its value changes only by a DefineGlobal
\* or SetGlobal that assigns it the stack top; an interpret call up to the
\* entry of run leaves the globals alone; the interner keeps every string
\* at its index, so a String global denotes the same string ever after.
C15_GlobalsPersist ==
    [][/\ pc # "running" => globals' = globals
       /\ SubSeq(interner'.vals, 1, Len(interner.vals)) = interner.vals
       /\ \A name \in DOMAIN globals :
              /\ name \in DOMAIN globals'
              /\ globals'[name] # globals[name] =>
                     (AssignsGlobal /\ globals'[name] = stack[Len(stack)])
              /\ globals'[name].t = "String" =>
                     globals'[name].n < Len(interner'.vals)]_vars

\* the third call prints the string that the first call gave the global a,
\* after a second call that returned an error
C15_Witness ==
    /\ Len(calls) = 3
    /\ calls[1] = "Ok" /\ calls[2] \in {"Compile", "Runtime"} /\ calls[3] = "Ok"
    /\ <<"a">> \in DOMAIN globals
    /\ globals[<<"a">>].t = "String"
    /\ InternerGet(interner, globals[<<"a">>].n) = <<"s">>
    /\ out # << >>
    /\ out[Len(out)] = [k |-> "print", s |-> "", text |-> <<"\"", "s", "\"">>]

\* C16: the program of NumGlobals = 257 globals a0 .. a256, each initialised
\* with its own string literal, and then print a256; is interpreted with
\* result Ok and prints the string a256 was initialised with, "s256" (in
\* quotes, as print writes strings), and nothing else.
C16_LongProgram ==
    /\ errs = << >>
    /\ result \in {"none", "Ok"}
    /\ pc = "done" =>
           /\ result = "Ok"
           /\ \A i \in 0 .. NumGlobals - 1 :
                  /\ LongName(i).src \in DOMAIN globals
                  /\ globals[LongName(i).src].t = "String"
                  /\ InternerGet(interner, globals[LongName(i).src].n)
                         = <<"s">> \o NatText(i)
           /\ out = <<[k |-> "print", s |-> "",
                       text |-> <<"\"", "s">> \o NatText(NumGlobals - 1) \o <<"\"">>]>>

\* the run is over, and the long forms of the three opcodes were executed
C16_Witness ==
    /\ pc = "done"
    /\ result = "Ok"
    /\ \A op \in {"Constant", "ConstantLong", "DefineGlobal", "DefineGlobalLong",
                   "GetGlobalLong"} :
           \E i \in 1 .. Len(trace) : trace[i].unit.op = op
    /\ Len(chunk.constants) > 2 * NumGlobals

\* the line that print writes for the value v (no String here)
PrintLine(v) == [k |-> "print", s |-> "", text |-> ValueText(v)]

\* the run of the source text print 1 + 2 * 3; is over
Ran1Plus2Times3 ==
    /\ pc = "done"
    /\ source = Program(<<PrintOf(<<TNum("1"), Kw("Plus"), TNum("2"), Kw("Star"),
                                    TNum("3")>>)>>).toks

\* C17 as claimed: interpreting print 1 + 2 * 3; prints 5.
C17_PrintsFive ==
    Ran1Plus2Times3 => out = <<[k |-> "print", s |-> "", text |-> <<"5">>]>>

\* C17 as amended: interpreting print 1 + 2 * 3; returns Ok and prints 7,
\* the product being taken before the sum.
C17_PrintsSeven ==
    Ran1Plus2Times3 =>
        /\ result = "Ok"
        /\ out = <<[k |-> "print", s |-> "", text |-> <<"7">>]>>
        /\ \E i \in 1 .. Len(trace) - 1 :
               trace[i].unit.op = "Multiply" /\ trace[i + 1].unit.op = "Add"

C17_Witness == Ran1Plus2Times3 /\ Len(trace) = 7

\* the number of { less the number of } before token i of the source
BraceDepth(i) ==
    Cardinality({j \in 1 .. i - 1 : source[j].typ = "LBrace"})
        - Cardinality({j \in 1 .. i - 1 : source[j].typ = "RBrace"})

\* token i of the source starts a var declaration inside a block whose
\* initializer is the declared name
SelfInit(i) ==
    /\ i + 4 <= Len(source)
    /\ source[i].typ = "Var"
    /\ source[i + 1].typ = "Identifier"
    /\ source[i + 2].typ = "Equal"
    /\ source[i + 3].typ = "Identifier"
    /\ source[i + 3].src = source[i + 1].src
    /\ source[i + 4].typ = "Semicolon"
    /\ BraceDepth(i) > 0

\* an earlier var declaration of the same block declares the same name
Redeclares(i) ==
    \E j \in 1 .. i - 1 :
        /\ source[j].typ = "Var"
        /\ i + 1 <= Len(source)
        /\ source[j + 1].src = source[i + 1].src
        /\ BraceDepth(j) = BraceDepth(i)
        /\ \A m \in j .. i : BraceDepth(m) >= BraceDepth(i)

\* the diagnostics with the message msg
Reports(msg) ==
    {k \in 1 .. Len(errs) : "msg" \in DOMAIN errs[k] /\ errs[k].msg = msg}

ShadowValue(x) == ParseNumber(x[1].src)

\* C19: var a = x; { var a = y; print a; } print a; prints y and then x,
\* so does the program with the outer a a local, and the deeper program of
\* that shape prints the inner local, the global and the outer local by
\* their names; every local's value is in the stack
\* cell of its compile-time index when its declaration ends, and every
\* GetLocal / SetLocal executed names a cell below the stack top.
C19_Shadowing ==
    /\ \A x, y \in ShadowValues :
           /\ (pc = "done" /\ source = ShadowOf(x, y).toks) =>
                  /\ result = "Ok"
                  /\ out = <<PrintLine(ShadowValue(y)), PrintLine(ShadowValue(x))>>
           /\ (pc = "done" /\ source = ShadowLocalOf(x, y).toks) =>
                  /\ result = "Ok"
                  /\ out = <<PrintLine(ShadowValue(y)), PrintLine(ShadowValue(x))>>
           /\ (pc = "done" /\ source = ShadowDeepOf(x, y).toks) =>
                  /\ result = "Ok"
                  /\ out = <<PrintLine(NumAdd(ShadowValue(y), ShadowValue(y))),
                             PrintLine(ShadowValue(x)), PrintLine(ShadowValue(y)),
                             PrintLine(ShadowValue(x))>>
    /\ \A k \in 1 .. Len(scopes) :
           \A i \in Len(scopes[k].localsAtBegin) + 1 .. Len(scopes[k].localsAtEnd) :
               \A t \in 1 .. Len(trace) :
                   trace[t].ip = scopes[k].localsAtEnd[i].at => trace[t].depth = i
    /\ \A t \in 1 .. Len(trace) :
           trace[t].unit.op \in {"GetLocal", "SetLocal"} =>
               chunk.code[trace[t].ip + 2].b < trace[t].depth

\* the scenario var a = 1; { var a = 2; print a; } print a; has run
C19_Witness ==
    /\ pc = "done"
    /\ source = ShadowOf(<<TNum("1")>>, <<TNum("2")>>).toks
    /\ out = <<[k |-> "print", s |-> "", text |-> <<"2">>],
               [k |-> "print", s |-> "", text |-> <<"1">>]>>
    /\ \E t \in 1 .. Len(trace) : trace[t].unit.op = "GetLocal"
    /\ \E t \in 1 .. Len(trace) : trace[t].unit.op = "GetGlobal"

\* the values pushed and not yet popped or reset after the first n calls of
\* the log, oldest first
RECURSIVE LiveAfter(_)
LiveAfter(n) ==
    IF n = 0 THEN << >>
    ELSE LET Apply(call, live) ==
                 IF ~call.ok THEN live
                 ELSE IF call.op = "push" THEN Append(live, call.arg)
                 ELSE IF call.op = "pop" THEN SubSeq(live, 1, Len(live) - 1)
                 ELSE IF call.op = "reset" THEN << >>
                 ELSE live
         IN  Apply(stackLog[n], LiveAfter(n - 1))

\* call number j of the log returned what a stack holding live gives
ReturnsFrom(j, live) ==
    /\ stackLog[j].op = "pop" =>
           /\ stackLog[j].ok <=> live # << >>
           /\ stackLog[j].ok => stackLog[j].ret = SomeRef(live[Len(live)])
    /\ stackLog[j].op = "peek" =>
           /\ stackLog[j].ok
           /\ stackLog[j].ret = IF Len(live) > stackLog[j].arg
                                THEN SomeRef(live[Len(live) - stackLog[j].arg])
                                ELSE NoneRef

\* aStack holds exactly live
Holds(live) ==
    /\ aStack.top = Len(live)
    /\ \A i \in 1 .. Len(live) : aStack.data[i - 1] = live[i]

\* C20: every pop returns the newest value pushed and not yet popped, so
\* pops return the pushes in reverse order; peek(d) returns the element d
\* below the top, None when the stack holds d or fewer elements, and leaves
\* the stack as it was.
C20_StackLifo ==
    /\ [](/\ \A j \in 1 .. Len(stackLog) : ReturnsFrom(j, LiveAfter(j - 1))
          /\ Holds(LiveAfter(Len(stackLog))))
    /\ [][(stackLog' # stackLog /\ stackLog'[Len(stackLog')].op = "peek")
              => aStack' = aStack]_vars

\* two values were pushed, peek(1) found the older one, the pops returned
\* the newer and then the older, and peek(0) found nothing
C20_Witness ==
    /\ Len(stackLog) = 6
    /\ [i \in 1 .. 6 |-> <<stackLog[i].op, stackLog[i].arg, stackLog[i].ret>>]
           = << <<"push", 1, NoneRef>>, <<"push", 2, NoneRef>>,
                <<"peek", 1, SomeRef(1)>>,
                <<"pop", 0, SomeRef(2)>>, <<"pop", 0, SomeRef(1)>>,
                <<"peek", 0, NoneRef>> >>

\* letters, digits and _
IsWordChar(c) == is_alpha(c) \/ is_digit(c)

\* the end of the longest run of word characters of the text from offset i
RunEnd(i) ==
    CHOOSE n \in i .. Len(scanner.src) :
        /\ \A m \in i .. n - 1 : IsWordChar(scanner.src[m + 1])
        /\ n = Len(scanner.src) \/ ~IsWordChar(scanner.src[n + 1])

\* the keyword whose full text is lex, Identifier when there is none
KeywordOf(lex) ==
    IF \E k \in Keywords : k.text = lex
    THEN (CHOOSE k \in Keywords : k.text = lex).typ
    ELSE "Identifier"

\* the token of entry e of the log is the word or the operator that starts
\* at its start
ScannedRight(e) ==
    /\ e.tok.typ \notin {"Eof", "Error"} =>
           e.tok.src = SubSeq(scanner.src, e.start + 1, e.current)
    /\ (e.start < Len(scanner.src) /\ is_alpha(scanner.src[e.start + 1])) =>
           /\ e.current = RunEnd(e.start)
           /\ e.tok.typ = KeywordOf(SubSeq(scanner.src, e.start + 1, RunEnd(e.start)))
    /\ (e.start < Len(scanner.src) /\ scanner.src[e.start + 1] \in DOMAIN OneOrTwo) =>
           IF e.start + 1 < Len(scanner.src) /\ scanner.src[e.start + 2] = "="
           THEN /\ e.current = e.start + 2
                /\ e.tok.typ \in {"BangEqual", "EqualEqual", "LessEqual", "GreaterEqual"}
                /\ e.tok.src = <<scanner.src[e.start + 1], "=">>
           ELSE /\ e.current = e.start + 1
                /\ e.tok.typ \in {"Bang", "Equal", "Less", "Greater"}

\* C21: a word is scanned as the keyword K exactly when it is the full text
\* of K, and as an Identifier otherwise (proper prefixes and extensions of
\* keywords included); != == <= >= are one token each.
C21_Keywords ==
    \A j \in 1 .. Len(scanned) :
        /\ ScannedRight(scanned[j])
        /\ \A k \in Keywords :
               scanned[j].tok.typ = k.typ <=> scanned[j].tok.src = k.text
        /\ scanned[j].tok.typ = "BangEqual" <=> scanned[j].tok.src = <<"!", "=">>
        /\ scanned[j].tok.typ = "EqualEqual" <=> scanned[j].tok.src = <<"=", "=">>
        /\ scanned[j].tok.typ = "LessEqual" <=> scanned[j].tok.src = <<"<", "=">>
        /\ scanned[j].tok.typ = "GreaterEqual" <=> scanned[j].tok.src = <<">", "=">>

\* and an andy != ! = fore for f was scanned to its end
C21_Witness ==
    /\ scanner.src = MixedText
    /\ [j \in 1 .. Len(scanned) |-> scanned[j].tok.typ]
           = <<"And", "Identifier", "Identifier", "BangEqual", "Bang", "Equal",
               "Identifier", "For", "Identifier", "Eof">>

\* Equal has just been executed on the operands a (left) and b (right)
EqualDone == pc = "running" /\ Len(trace) = 3 /\ trace[3].unit.op = "Equal"
LeftOperand == chunk.constants[1]
RightOperand == chunk.constants[2]
PushedByEqual == stack[Len(stack)]

\* |x - y| < FLOAT_TOL for the numbers x and y
WithinTol(x, y) == BelowTol(NumSub(x, y)) /\ BelowTol(NumSub(y, x))

\* C22 as claimed: Equal on two numbers pushes true only when they differ by
\* less than 1e-9 in absolute value, so false for different integers in
\* either order.
C22_NumEqualWithinTol ==
    (EqualDone /\ LeftOperand.t = "Num" /\ RightOperand.t = "Num") =>
        /\ PushedByEqual = BoolV(TRUE) => WithinTol(LeftOperand, RightOperand)
        /\ (LeftOperand.d = 1 /\ RightOperand.d = 1 /\ LeftOperand # RightOperand) =>
               PushedByEqual = BoolV(FALSE)

\* what the code does on two numbers: true exactly when a - b < FLOAT_TOL
C22_NumEqualOneSided ==
    (EqualDone /\ LeftOperand.t = "Num" /\ RightOperand.t = "Num") =>
        PushedByEqual = BoolV(BelowTol(NumSub(LeftOperand, RightOperand)))

\* C29 as claimed: Equal is symmetric: what it pushes for a == b is what
\* Value::eq gives for b == a.
C29_EqualSymmetric ==
    EqualDone => PushedByEqual = BoolV(ValueEq(RightOperand, LeftOperand))

\* the kind of value the literal x evaluates to
KindOf(x) ==
    IF x[1].typ \in {"True", "False"} THEN "Bool"
    ELSE IF x[1].typ = "Number" THEN "Num"
    ELSE x[1].typ

\* what C23 says x == y gives: the set of the results it allows
EqualSays(x, y) ==
    IF KindOf(x) = "Nil" THEN {TRUE}
    ELSE IF KindOf(x) = "Bool" /\ KindOf(y) = "Bool" THEN {x[1].typ = y[1].typ}
    ELSE IF KindOf(x) = "String" /\ KindOf(y) = "String" THEN {x[1].src = y[1].src}
    ELSE IF KindOf(x) # KindOf(y) /\ KindOf(y) # "Nil" THEN {FALSE}
    ELSE {TRUE, FALSE}

\* C23: Equal pops b (the right operand, on top) and then a; print x == y;
\* prints true whenever x is nil, whatever y is; for two booleans iff they
\* are the same, for two strings iff they are the same string, and false for
\* operands of different kinds neither of which is nil.
C23_EqualByKind ==
    LET Compared(x, y) ==
            (x \in EqualAtoms /\ y \in EqualAtoms /\ source = EqualOf(x, y).toks) =>
                /\ \A t \in 1 .. Len(trace) :
                       trace[t].unit.op = "Equal" =>
                           /\ trace[t].depth = 2
                           /\ trace[t].top.t = KindOf(y)
                           /\ KindOf(y) = "Bool" =>
                                  trace[t].top = BoolV(y[1].typ = "True")
                /\ pc = "done" =>
                       /\ result = "Ok"
                       /\ \E r \in EqualSays(x, y) : out = <<PrintLine(BoolV(r))>>
    IN  (Len(source) = 5 /\ source[3].typ = "EqualEqual") =>
            Compared(<<Tk(source[2].typ, source[2].src)>>,
                     <<Tk(source[4].typ, source[4].src)>>)

\* print nil == false; has run and printed true
C23_Witness ==
    /\ pc = "done"
    /\ source = EqualOf(<<Kw("Nil")>>, <<Kw("False")>>).toks
    /\ out = <<[k |-> "print", s |-> "", text |-> <<"t", "r", "u", "e">>]>>

\* run is about to execute SetGlobal or SetGlobalLong
AtSetGlobal == pc = "running" /\ NextOp \in {"SetGlobal", "SetGlobalLong"}

\* the operand bytes that follow the opcode at ip: one for SetGlobal, two,
\* high byte first, for SetGlobalLong
SetOperandLen == IF NextOp = "SetGlobal" THEN 1 ELSE 2
SetOperand ==
    IF NextOp = "SetGlobal" THEN chunk.code[ip + 2].b
    ELSE join_u8s(chunk.code[ip + 2].b, chunk.code[ip + 3].b)

\* the name the instruction at ip names
SetName == InternerGet(interner, chunk.constants[SetOperand + 1].n)

\* C24: SetGlobal and SetGlobalLong on an absent name end the run with
\* Err(Runtime) and leave globals as they were; on a present name they
\* overwrite its value with the stack top, leave the stack alone and go on
\* at the opcode after the operand bytes.
C24_SetGlobal ==
    [][AtSetGlobal =>
          IF SetName \in DOMAIN globals
          THEN /\ globals' = [globals EXCEPT ![SetName] = stack[Len(stack)]]
               /\ stack' = stack
               /\ pc' = "running"
               /\ ip' = ip + 1 + SetOperandLen
          ELSE /\ pc' = "done"
               /\ result' = "Runtime"
               /\ globals' = globals]_vars

\* token i of the source starts a var declaration inside a block
LocalDecl(i) ==
    /\ i + 1 <= Len(source)
    /\ source[i].typ = "Var"
    /\ source[i + 1].typ = "Identifier"
    /\ BraceDepth(i) > 0

\* an enclosing block or the top level declares the name of declaration i
\* before it
DeclaredOutside(i) ==
    \E j \in 1 .. i - 1 :
        /\ source[j].typ = "Var"
        /\ source[j + 1].src = source[i + 1].src
        /\ BraceDepth(j) < BraceDepth(i)
        /\ \A m \in j .. i : BraceDepth(m) >= BraceDepth(j)

\* C25: a var declaration in a block is reported with "Already a variable
\* with this name in this scope." exactly when its own block has declared
\* the name before; a declaration of the name in an enclosing block or at
\* the top level brings no report, and the new local is the one read inside
\* the block.
C25_Redeclaration ==
    /\ pc = "done" =>
           /\ Cardinality(Reports("Already a variable with this name in this scope."))
                  = Cardinality({i \in 1 .. Len(source) : LocalDecl(i) /\ Redeclares(i)})
           /\ (/\ \E i \in 1 .. Len(source) : LocalDecl(i) /\ DeclaredOutside(i)
               /\ \A i \in 1 .. Len(source) : LocalDecl(i) => ~Redeclares(i) /\ ~SelfInit(i))
                  => result \in {"Ok", "Runtime"}
    /\ \A x, y \in ShadowValues :
           (pc = "done" /\ source \in {ShadowOf(x, y).toks, ShadowLocalOf(x, y).toks}) =>
               /\ errs = << >>
               /\ out[1] = PrintLine(ShadowValue(y))

\* { var a = 1; var a = 1; } was refused
C25_Witness ==
    /\ pc = "done" /\ result = "Compile"
    /\ source = Program(<<BlockOf(VarOf("a", <<TNum("1")>>)
                                  \o VarOf("a", <<TNum("1")>>))>>).toks
    /\ errs = <<[line |-> 1, typ |-> "Identifier",
                 msg |-> "Already a variable with this name in this scope."]>>

\* the token types before which synchronize stops
StatementStarts == {"Class", "Fun", "Var", "For", "If", "While", "Print", "Return"}

\* the error_at and synchronize calls of the compilation of the source, in
\* their order, obey the rules of panic mode, and flags is what they leave
PanicRules(log, flags) ==
    /\ \A i \in 1 .. Len(log) :
           /\ log[i].before = IF i = 1
                              THEN [panic_mode |-> FALSE, had_error |-> FALSE,
                                    reported |-> 0]
                              ELSE log[i - 1].after
           /\ log[i].k = "error_at" =>
                  log[i].after =
                      IF log[i].before.panic_mode THEN log[i].before
                      ELSE [panic_mode |-> TRUE, had_error |-> TRUE,
                            reported |-> log[i].before.reported + 1]
           /\ log[i].k = "synchronize" =>
                  log[i].after = [log[i].before EXCEPT !.panic_mode = FALSE]
           /\ log[i].k = "synchronized" =>
                  /\ log[i].after = log[i].before
                  /\ \/ log[i].current = "Eof"
                     \/ log[i].previous = "Semicolon"
                     \/ log[i].current \in StatementStarts
           /\ log[i].after.panic_mode => log[i].after.had_error
           /\ log[i].before.had_error => log[i].after.had_error
    /\ flags = IF log = << >>
               THEN [panic_mode |-> FALSE, had_error |-> FALSE, reported |-> 0]
               ELSE log[Len(log)].after

\* C26: in a compilation an error_at call out of panic mode writes one
\* diagnostic and sets had_error and panic_mode; one in panic mode changes
\* nothing; panic_mode is cleared by synchronize and by nothing else;
\* synchronize returns after a ; or before a statement keyword or at Eof;
\* had_error is never reset and holds whenever panic_mode does.
C26_PanicMode ==
    LET Compiled(c) ==
            /\ PanicRules(c.events, ParseFlags(c))
            /\ c.had_error <=> c.diag # << >>
    IN  Compiled(compile(source, EofLineOf(source), NewInterner))

\* a compilation in which a diagnostic was suppressed in panic mode, and
\* synchronize skipped tokens, reported one of them and returned in panic mode
C26_Witness ==
    LET Compiled(c) ==
            /\ \E i \in 1 .. Len(c.events) :
                   c.events[i].k = "error_at" /\ c.events[i].before.panic_mode
            /\ \E i \in 1 .. Len(c.events) :
                   /\ c.events[i].k = "synchronized"
                   /\ c.events[i].after.panic_mode
                   /\ c.events[i].previous = "Semicolon"
            /\ Len(c.diag) = 2
    IN  /\ pc = "done" /\ result = "Compile"
        /\ Len(source) = 12
        /\ Compiled(compile(source, EofLineOf(source), NewInterner))

\* the opcodes whose operand run reads with read_idx, and those whose
\* operand it reads with read_short
IdxOps ==
    {"Constant", "ConstantLong", "GetLocal", "GetLocalLong", "SetLocal",
     "SetLocalLong", "GetGlobal", "GetGlobalLong", "DefineGlobal",
     "DefineGlobalLong", "SetGlobal", "SetGlobalLong"}
JumpOps == {"Jump", "JumpIfFalse", "Loop"}

\* the offsets of the chunk that hold a named opcode
OpOffsets == {i \in 0 .. Len(chunk.code) - 1 : get_op(chunk, i).op # "Byte"}

\* the number of operand bytes run consumes for the opcode at offset i
Consumed(i) ==
    IF get_op(chunk, i).op \in IdxOps
    THEN read_idx(chunk, i + 1, get_op(chunk, i).op).ip - (i + 1)
    ELSE IF get_op(chunk, i).op \in JumpOps
    THEN read_short(chunk, i + 1).ip - (i + 1)
    ELSE 0

\* where the Jump or JumpIfFalse at offset i lands when it is taken
JumpTarget(i) == i + 3 + read_short(chunk, i + 1).val

\* the instructions executed so far were each fetched at a higher ip than
\* the one before, and the next fetch is higher still
IpAdvances ==
    /\ \A k \in 1 .. Len(trace) - 1 : trace[k].ip < trace[k + 1].ip
    /\ pc = "running" /\ trace # << >> => trace[Len(trace)].ip < ip

\* the chunk ends in Return, holds no Loop, and its jumps land at or before
\* the final Return
JumpsForward ==
    pc = "running" =>
        /\ chunk.code # << >>
        /\ get_op(chunk, Len(chunk.code) - 1).op = "Return"
        /\ \A i \in OpOffsets :
               /\ get_op(chunk, i).op # "Loop"
               /\ get_op(chunk, i).op \in {"Jump", "JumpIfFalse"} =>
                      JumpTarget(i) <= Len(chunk.code) - 1

\* run never fetches past the end of the code
FetchInCode ==
    /\ pc = "running" => ip < Len(chunk.code)
    /\ \A k \in 1 .. Len(trace) : trace[k].unit.op # "None"

\* the rounds of run's loop so far are no more than the units of the code:
\* with ip rising at each round and below the end of the code at each
\* fetch, the loop is left after finitely many rounds
StepsBounded == trace # << >> => Len(trace) <= Len(chunk.code)

\* what holds of the run loop on every text: ip rises, jumps go forward and
\* stay in the code, no fetch is past the end, the rounds are bounded
C27_RunBounded == IpAdvances /\ JumpsForward /\ FetchInCode /\ StepsBounded

\* C27: on the chunk of a successful compile ip rises at every executed
\* instruction, no Loop is in the code, every jump lands at or before the
\* final Return, no fetch is past the end of the code, and the run ends,
\* after no more rounds than the code has units, by Return or by a runtime
\* error.
C27_RunTerminates ==
    /\ C27_RunBounded
    /\ pc = "done" /\ trace # << >> => result \in {"Ok", "Runtime"}

\* every opcode of the chunk is followed by as many operand bytes as run
\* consumes for it, and then by an opcode or the end of the code
OperandsMatch ==
    \A i \in OpOffsets :
        /\ \A j \in 1 .. Consumed(i) : get_op(chunk, i + j).op = "Byte"
        /\ get_op(chunk, i + Consumed(i) + 1).op # "Byte"

\* every jump of the chunk lands on a named opcode
JumpsLandOnOpcodes ==
    \A i \in OpOffsets :
        get_op(chunk, i).op \in {"Jump", "JumpIfFalse"} =>
            get_op(chunk, JumpTarget(i)).op \notin {"Byte", "None"}

\* C28: on the chunk of a successful compile every opcode is followed by
\* exactly the operand bytes run consumes for it, every jump lands on an
\* opcode, every fetch of run's loop finds a named opcode, and the Byte arm
\* of run is never taken.
C28_FetchAtOpcode ==
    /\ pc = "running" =>
           /\ OperandsMatch
           /\ JumpsLandOnOpcodes
           /\ get_op(chunk, ip).op \notin {"Byte", "None"}
    /\ \A k \in 1 .. Len(trace) : trace[k].unit.op # "Byte"

=============================================================================
